---- MODULE Spec2Model ----
(***************************************************************************)
(* A model of the generation-aware reconstruction engine of pokedb:        *)
(*   - MoveParser._apply_past_values / AbilityParser.process (projection)  *)
(*   - PokemonParser._get_evolution_chain (evolution pruning)              *)
(*   - PokemonParser._apply_historical_changes as wired by run_parsers     *)
(*   - ApiClient.get (memory and file cache)                               *)
(*   - BaseParser.run driven by main (discovery, pool, collection)         *)
(* Python None is the empty tuple <<>>, a present value v is <<v>>.        *)
(* A dict that keeps insertion order is a sequence of entries.             *)
(***************************************************************************)
EXTENDS Integers, Sequences, FiniteSets, TLC

VARIABLES
    generation_version_groups, \* Dict[int, List[str]] built by gather_initial_data
    target_gen,                \* the target generation of the run
    raw,                       \* the raw record fetched for the entity at hand
    out,                       \* what processing the entity produced
    chain,                     \* the evolution chain and species records of the API
    evolution_chain,           \* what _get_evolution_chain returned
    scraped,                   \* the secondary source's change log of the species
    parser,                    \* the PokemonParser instance run_parsers built
    client,                    \* the ApiClient: _cache, cache_dir, cache_expires
    disk,                      \* the cache files: url -> [mtime, payload]
    now,                       \* time.time()
    calls,                     \* history: the get calls made so far
    runner,                    \* main's position, the parser it runs, its pool size
    all_references,            \* BaseParser.run: the discovered references
    future_map,                \* BaseParser.run: one future per reference
    summary_data,              \* BaseParser.run: the summary list
    pokemon_summaries,         \* BaseParser.run: the category map
    errors,                    \* BaseParser.run: the error list
    http,                      \* one get call seen from the HTTP session
    threads,                   \* the worker threads: inside ApiClient.get, or of a ThreadingManager
    projections                \* the results of repeated projections

vars == <<generation_version_groups, target_gen, raw, out, chain, evolution_chain,
          scraped, parser, client, disk, now, calls, runner, all_references,
          future_map, summary_data, pokemon_summaries, errors, http, threads,
          projections>>

cacheVars == <<client, disk, now, calls>>
auxVars == <<http, threads, projections>>
runVars == <<runner, all_references, future_map, summary_data, pokemon_summaries, errors>>

None == <<>>
Some(v) == <<v>>
Range(s) == {s[i] : i \in DOMAIN s}

(***************************************************************************)
(* Bounds of the projection inputs.                                        *)
(***************************************************************************)
MaxEvents == 2

(***************************************************************************)
(* The remote API's generation listing: generation -> its version groups,  *)
(* in the order of the listing.  ApiWorldB has a generation without any    *)
(* version group.                                                          *)
(***************************************************************************)
ApiWorldA ==
    << [gen |-> 1, vgs |-> <<"vgA">>],
       [gen |-> 2, vgs |-> <<"vgB", "vgC">>],
       [gen |-> 3, vgs |-> <<"vgD">>],
       [gen |-> 4, vgs |-> <<"vgE", "vgF">>] >>

ApiWorldB ==
    << [gen |-> 1, vgs |-> <<"vgA">>],
       [gen |-> 2, vgs |-> << >>],
       [gen |-> 3, vgs |-> <<"vgD">>],
       [gen |-> 4, vgs |-> <<"vgE", "vgF">>] >>

ApiWorlds == {ApiWorldA, ApiWorldB}

\* get_latest_generation: the largest generation number of the listing.
get_latest_generation(world) ==
    CHOOSE g \in {world[i].gen : i \in DOMAIN world} :
        \A i \in DOMAIN world : world[i].gen <= g

\* gather_initial_data: the entries of the listing with gen_num <= target_gen,
\* in listing order.
gather_initial_data(world, tgt) ==
    SelectSeq(world, LAMBDA e : e.gen <= tgt)

\* dict.get(key, []) on a generation -> version-group-list dict.
DictGet(d, g) ==
    IF \E i \in DOMAIN d : d[i].gen = g
    THEN d[CHOOSE i \in DOMAIN d : d[i].gen = g].vgs
    ELSE << >>

\* build_version_group_to_generation_map: a dict comprehension over the
\* generations in insertion order; a later generation overwrites an earlier one.
build_version_group_to_generation_map(d) ==
    LET names == UNION {Range(d[i].vgs) : i \in DOMAIN d}
        last(vg) == CHOOSE i \in DOMAIN d :
                        /\ vg \in Range(d[i].vgs)
                        /\ \A j \in DOMAIN d : vg \in Range(d[j].vgs) => j <= i
    IN  [vg \in names |-> d[last(vg)].gen]

\* dict.get(key, default) on the version-group -> generation map.
MapGet(m, k, default) == IF k \in DOMAIN m THEN m[k] ELSE default

UnknownGen == 999
NoGen == 0

\* get_english_entry(entries, key) without generation information: the first
\* entry whose language is "en", else None.
get_english_entry(entries, key) ==
    IF \E i \in DOMAIN entries : entries[i].language = "en"
    THEN LET i == CHOOSE k \in DOMAIN entries :
                      /\ entries[k].language = "en"
                      /\ \A j \in DOMAIN entries : entries[j].language = "en" => k <= j
         IN  Some(entries[i][key])
    ELSE None

\* Python truthiness of an optional text: None and "" are falsy.
Truthy(opt) == opt # None /\ opt # Some("")

ChangeFields ==
    {"accuracy", "power", "pp", "effect_chance", "type", "effect", "short_effect"}

\* sorted(..., key=gen): a stable sort of the events whose generation is at
\* most the target, by generation.
RECURSIVE StableByGen(_, _, _, _)
StableByGen(events, m, g, tgt) ==
    IF g > tgt THEN << >>
    ELSE SelectSeq(events,
                   LAMBDA e : MapGet(m, e.version_group, UnknownGen) = g)
         \o StableByGen(events, m, g + 1, tgt)

LowestKey(events, m) ==
    IF events = << >> THEN 1
    ELSE CHOOSE g \in {MapGet(m, events[i].version_group, UnknownGen) : i \in DOMAIN events} :
            \A i \in DOMAIN events : g <= MapGet(m, events[i].version_group, UnknownGen)

\* sorted_past_values without the sort: the kept events in array order.
sorted_past_values_unsorted(past_values, m, tgt) ==
    SelectSeq(past_values,
              LAMBDA e : MapGet(m, e.version_group, UnknownGen) <= tgt)

\* sorted_past_values that sorts the record's own list in place and empties
\* it: every projection after the first finds no event.
sorted_past_values_consuming(past_values, m, tgt) ==
    IF projections # << >> THEN << >>
    ELSE LET kept == SelectSeq(past_values,
                               LAMBDA e : MapGet(m, e.version_group, UnknownGen) <= tgt)
         IN  StableByGen(kept, m, LowestKey(kept, m), tgt)

\* sorted_past_values whose sort is not stable: events of one generation
\* come out in reverse array order.
sorted_past_values_unstable(past_values, m, tgt) ==
    LET reversed == [k \in 1..Len(past_values) |->
                        past_values[Len(past_values) + 1 - k]]
        kept == SelectSeq(reversed,
                          LAMBDA e : MapGet(m, e.version_group, UnknownGen) <= tgt)
    IN  StableByGen(kept, m, LowestKey(kept, m), tgt)

sorted_past_values(past_values, m, tgt) ==
    LET kept == SelectSeq(past_values,
                          LAMBDA e : MapGet(m, e.version_group, UnknownGen) <= tgt)
    IN  StableByGen(kept, m, LowestKey(kept, m), tgt)

\* apply_past_value that copies every numeric field of the event, null or
\* not.
apply_past_value_copying(temp_data, past_value) ==
    LET effect == get_english_entry(past_value.effect_entries, "effect")
        short_effect == get_english_entry(past_value.effect_entries, "short_effect")
        has_entries == past_value.effect_entries # << >>
    IN  [accuracy |-> past_value.accuracy,
         power |-> past_value.power,
         pp |-> past_value.pp,
         effect_chance |-> past_value.effect_chance,
         type |-> IF Truthy(past_value.type)
                  THEN past_value.type ELSE temp_data.type,
         effect |-> IF has_entries /\ Truthy(effect)
                    THEN effect ELSE temp_data.effect,
         short_effect |-> IF has_entries /\ Truthy(short_effect)
                          THEN short_effect ELSE temp_data.short_effect]

\* One pass of the replay loop's body (move.py 209-228): only the fields the
\* event carries are overwritten.
apply_past_value(temp_data, past_value) ==
    LET effect == get_english_entry(past_value.effect_entries, "effect")
        short_effect == get_english_entry(past_value.effect_entries, "short_effect")
        has_entries == past_value.effect_entries # << >>
    IN  [accuracy |-> IF past_value.accuracy # None
                      THEN past_value.accuracy ELSE temp_data.accuracy,
         power |-> IF past_value.power # None
                   THEN past_value.power ELSE temp_data.power,
         pp |-> IF past_value.pp # None THEN past_value.pp ELSE temp_data.pp,
         effect_chance |-> IF past_value.effect_chance # None
                           THEN past_value.effect_chance ELSE temp_data.effect_chance,
         type |-> IF Truthy(past_value.type)
                  THEN past_value.type ELSE temp_data.type,
         effect |-> IF has_entries /\ Truthy(effect)
                    THEN effect ELSE temp_data.effect,
         short_effect |-> IF has_entries /\ Truthy(short_effect)
                          THEN short_effect ELSE temp_data.short_effect]

\* The replay loop (move.py 197-228): events in sorted order, stopping at the
\* first one whose generation exceeds the version group's generation.
\* replay whose cut-off also stops at events of the version group's own
\* generation (>= instead of >).
RECURSIVE replay_strict(_, _, _, _, _)
replay_strict(temp_data, events, i, m, current_version_group_gen) ==
    IF i > Len(events) THEN temp_data
    ELSE IF MapGet(m, events[i].version_group, UnknownGen) >= current_version_group_gen
         THEN temp_data
         ELSE replay_strict(apply_past_value(temp_data, events[i]), events, i + 1, m,
                            current_version_group_gen)

RECURSIVE replay(_, _, _, _, _)
replay(temp_data, events, i, m, current_version_group_gen) ==
    IF i > Len(events) THEN temp_data
    ELSE IF MapGet(m, events[i].version_group, UnknownGen) > current_version_group_gen
         THEN temp_data
         ELSE replay(apply_past_value(temp_data, events[i]), events, i + 1, m,
                     current_version_group_gen)

ScalarField(v) == [kind |-> "scalar", val |-> v]
MapField(f) == [kind |-> "map", val |-> f]

\* _apply_past_values with a collapsing step: a field whose version groups
\* all hold one value is emitted as that scalar.
_apply_past_values_collapsing(cleaned_data, past_values, gvg, tgt) ==
    IF tgt = 0 \/ gvg = << >> THEN cleaned_data
    ELSE
      LET m == build_version_group_to_generation_map(gvg)
          target_gen_version_groups == DictGet(gvg, tgt)
          start == [f \in ChangeFields |-> cleaned_data[f].val]
          temp(vg) == replay(start, sorted_past_values(past_values, m, tgt), 1, m,
                             MapGet(m, vg, NoGen))
          values(f) == {temp(vg)[f] : vg \in Range(target_gen_version_groups)}
      IN  [f \in DOMAIN cleaned_data |->
              IF f \in ChangeFields
              THEN IF Cardinality(values(f)) = 1
                   THEN ScalarField(CHOOSE v \in values(f) : TRUE)
                   ELSE MapField([vg \in Range(target_gen_version_groups) |->
                                     temp(vg)[f]])
              ELSE cleaned_data[f]]

\* _apply_past_values whose cut-off compares version groups: an event of
\* the target generation is replayed only for its own version group.
_apply_past_values_per_group(cleaned_data, past_values, gvg, tgt) ==
    IF tgt = 0 \/ gvg = << >> THEN cleaned_data
    ELSE
      LET m == build_version_group_to_generation_map(gvg)
          target_gen_version_groups == DictGet(gvg, tgt)
          start == [f \in ChangeFields |-> cleaned_data[f].val]
          own(vg) == SelectSeq(past_values,
                               LAMBDA e : \/ e.version_group = vg
                                          \/ MapGet(m, e.version_group, UnknownGen)
                                                < MapGet(m, vg, NoGen))
          temp(vg) == replay(start, sorted_past_values(own(vg), m, tgt), 1, m,
                             MapGet(m, vg, NoGen))
      IN  [f \in DOMAIN cleaned_data |->
              IF f \in ChangeFields
              THEN MapField([vg \in Range(target_gen_version_groups) |-> temp(vg)[f]])
              ELSE cleaned_data[f]]

\* MoveParser._apply_past_values: cleaned_data with every change field
\* replaced by a version-group -> value dict.
_apply_past_values(cleaned_data, past_values, gvg, tgt) ==
    IF tgt = 0 \/ gvg = << >> THEN cleaned_data
    ELSE
      LET m == build_version_group_to_generation_map(gvg)
          target_gen_version_groups == DictGet(gvg, tgt)
          start == [f \in ChangeFields |-> cleaned_data[f].val]
          temp(vg) == replay(start, sorted_past_values(past_values, m, tgt), 1, m,
                             MapGet(m, vg, NoGen))
      IN  [f \in DOMAIN cleaned_data |->
              IF f \in ChangeFields
              THEN MapField([vg \in Range(target_gen_version_groups) |-> temp(vg)[f]])
              ELSE cleaned_data[f]]

\* write_json_file: the file written for an entity, named after it.
write_json_file(dir, name, data) == [dir |-> dir, name |-> name, data |-> data]

ErrorResult(name) == [kind |-> "error", name |-> name, id |-> 0]
DictResult(name, id) == [kind |-> "dict", name |-> name, id |-> id]
NoneResult == [kind |-> "none", name |-> "", id |-> 0]

\* MoveParser.process (move.py 253-307): fetch, build cleaned_data, apply the
\* past values, write the file, return the summary; any exception becomes an
\* error string and nothing is written.
MoveParser_process(data, gvg, tgt) ==
    IF ~data.fetch_ok
    THEN [result |-> ErrorResult(data.name), file |-> None]
    ELSE LET cleaned_data ==
                 [id |-> data.id, name |-> data.name,
                  accuracy |-> ScalarField(data.accuracy),
                  power |-> ScalarField(data.power),
                  pp |-> ScalarField(data.pp),
                  effect_chance |-> ScalarField(data.effect_chance),
                  type |-> ScalarField(data.type),
                  effect |-> ScalarField(get_english_entry(data.effect_entries, "effect")),
                  short_effect |->
                      ScalarField(get_english_entry(data.effect_entries, "short_effect"))]
             projected == _apply_past_values(cleaned_data, data.past_values, gvg, tgt)
         IN  [result |-> DictResult(projected.name, projected.id),
              file |-> Some(write_json_file("move", projected.name, projected))]

\* The effect replay of AbilityParser.process (ability.py 122-137).
RECURSIVE replay_effect(_, _, _, _, _)
replay_effect(current_effect, changes, i, m, current_gen) ==
    IF i > Len(changes) THEN current_effect
    ELSE IF MapGet(m, changes[i].version_group, UnknownGen) > current_gen
         THEN current_effect
         ELSE LET effect == get_english_entry(changes[i].effect_entries, "effect")
              IN  replay_effect(IF Truthy(effect) THEN effect ELSE current_effect,
                                changes, i + 1, m, current_gen)

\* AbilityParser.process (ability.py 63-156).
AbilityParser_process(data, gvg, tgt) ==
    IF ~data.fetch_ok
    THEN [result |-> ErrorResult(data.name), file |-> None]
    ELSE LET current == get_english_entry(data.effect_entries, "effect")
             latest_short_effect == get_english_entry(data.effect_entries, "short_effect")
             m == build_version_group_to_generation_map(gvg)
             effect_map ==
                 [vg \in Range(DictGet(gvg, tgt)) |->
                     replay_effect(current,
                                   sorted_past_values(data.effect_changes, m, tgt),
                                   1, m, MapGet(m, vg, NoGen))]
             cleaned_data ==
                 [id |-> data.id, name |-> data.name,
                  effect |-> IF tgt # 0 /\ gvg # << >> /\ data.effect_changes # << >>
                             THEN MapField(effect_map) ELSE ScalarField(current),
                  short_effect |-> ScalarField(latest_short_effect)]
         IN  [result |-> DictResult(cleaned_data.name, cleaned_data.id),
              file |-> Some(write_json_file("ability", cleaned_data.name, cleaned_data))]

(***************************************************************************)
(* Inputs of the projection: override events and raw records.              *)
(***************************************************************************)
NoEntries == << >>
OldEntries ==
    << [language |-> "fr", effect |-> "ancien effet", short_effect |-> "ancien"],
       [language |-> "en", effect |-> "old effect", short_effect |-> "old short"] >>
CurEntries ==
    << [language |-> "en", effect |-> "cur effect", short_effect |-> "cur short"] >>

Event(vg, acc, pow, ty, entries) ==
    [version_group |-> vg, accuracy |-> acc, power |-> pow, pp |-> None,
     effect_chance |-> None, type |-> ty, effect_entries |-> entries]

EventCatalogue ==
    { Event("vgA", None, Some(40), None, NoEntries),
      Event("vgB", None, Some(70), None, NoEntries),
      Event("vgD", None, Some(60), None, NoEntries),
      Event("vgX", None, Some(50), None, NoEntries),
      Event("vgA", Some(90), None, Some("normal"), NoEntries),
      Event("vgB", None, None, None, OldEntries),
      Event("vgD", None, Some(0), None, NoEntries) }

RECURSIVE SeqsUpTo(_, _)
SeqsUpTo(S, n) ==
    IF n = 0 THEN {<< >>}
    ELSE LET shorter == SeqsUpTo(S, n - 1)
         IN  shorter \cup {Append(s, e) : s \in shorter, e \in S}

EventLists == SeqsUpTo(EventCatalogue, MaxEvents)

CurrentPowers == {None, Some(100)}

RawRecord(kind, ok, pow, events) ==
    [kind |-> kind, fetch_ok |-> ok, id |-> 1, name |-> "gust",
     accuracy |-> Some(100), power |-> pow, pp |-> Some(35),
     effect_chance |-> None, type |-> Some("flying"),
     effect_entries |-> CurEntries,
     past_values |-> IF kind = "move" THEN events ELSE << >>,
     effect_changes |-> IF kind = "ability" THEN events ELSE << >>]

RawRecords ==
    {RawRecord(k, ok, p, evs) :
        k \in {"move", "ability"}, ok \in BOOLEAN, p \in CurrentPowers,
        evs \in EventLists}

NotProcessed == [done |-> FALSE, result |-> NoneResult, file |-> None]

NotResolved == [done |-> FALSE, tree |-> None]
EvoIdle == chain = << >> /\ evolution_chain = NotResolved
ProjIdle == raw = << >> /\ out = NotProcessed
NoClient == [proc |-> 0, cache |-> << >>, cache_dir |-> FALSE, cache_expires |-> None]
CacheIdle == client = NoClient /\ disk = << >> /\ now = 0 /\ calls = << >>
NoSummaries == [pokemon |-> << >>, variant |-> << >>, transformation |-> << >>,
                cosmetic |-> << >>]
NoRunner == [phase |-> "idle", parser_name |-> "", max_workers |-> 0, failed |-> {},
             returned |-> None]
RunIdle ==
    /\ runner = NoRunner
    /\ all_references = << >>
    /\ future_map = << >>
    /\ summary_data = << >>
    /\ pokemon_summaries = NoSummaries
    /\ errors = << >>
NoHttp == [phase |-> "off"]
HttpIdle == http = NoHttp
ThreadsIdle == threads = << >>
ProjectionsIdle == projections = << >>
AuxIdle == HttpIdle /\ ThreadsIdle /\ ProjectionsIdle
NoParser == [built |-> FALSE, is_historical |-> FALSE, scraper_func |-> None]
SpeciesIdle == scraped = << >> /\ parser = NoParser

(***************************************************************************)
(* SpecProj: one entity is projected for a target generation.              *)
(***************************************************************************)
InitProj ==
    /\ AuxIdle
    /\ EvoIdle
    /\ RunIdle
    /\ CacheIdle
    /\ SpeciesIdle
    /\ \E world \in ApiWorlds :
         \E tgt \in 1..get_latest_generation(world) :
            /\ target_gen = tgt
            /\ generation_version_groups = gather_initial_data(world, tgt)
    /\ raw \in RawRecords
    /\ out = NotProcessed

ProcessMove ==
    /\ raw.kind = "move"
    /\ ~out.done
    /\ LET r == MoveParser_process(raw, generation_version_groups, target_gen)
       IN  out' = [done |-> TRUE, result |-> r.result, file |-> r.file]
    /\ UNCHANGED <<generation_version_groups, target_gen, raw, chain, evolution_chain,
                   scraped, parser, cacheVars, runVars, auxVars>>

ProcessAbility ==
    /\ raw.kind = "ability"
    /\ ~out.done
    /\ LET r == AbilityParser_process(raw, generation_version_groups, target_gen)
       IN  out' = [done |-> TRUE, result |-> r.result, file |-> r.file]
    /\ UNCHANGED <<generation_version_groups, target_gen, raw, chain, evolution_chain,
                   scraped, parser, cacheVars, runVars, auxVars>>

NextProj == ProcessMove \/ ProcessAbility

SpecProj == InitProj /\ [][NextProj]_vars

(***************************************************************************)
(* Claims about the projection, checked under SpecProj.                    *)
(***************************************************************************)
Written == out.done /\ out.file # None
WrittenData == out.file[1].data
TargetVgs == Range(DictGet(generation_version_groups, target_gen))
MoveDone == out.done /\ raw.kind = "move" /\ raw.fetch_ok
AbilityDone == out.done /\ raw.kind = "ability" /\ raw.fetch_ok

E_vgA_40 == Event("vgA", None, Some(40), None, NoEntries)
E_vgB_70 == Event("vgB", None, Some(70), None, NoEntries)
E_vgD_60 == Event("vgD", None, Some(60), None, NoEntries)

C4_Scenario ==
    /\ MoveDone
    /\ generation_version_groups =
           << [gen |-> 1, vgs |-> <<"vgA">>], [gen |-> 2, vgs |-> <<"vgB", "vgC">>] >>
    /\ target_gen = 2
    /\ raw.power = Some(100)
    /\ raw.past_values = <<E_vgB_70>>

\* C4 as stated: in the end-to-end scenario (index {1: [vgA], 2: [vgB, vgC]},
\* power 100, one override {vgB, power 70}, target 2) the emitted power is
\* {vgB: 70, vgC: 100}.
C4_AsStated ==
    C4_Scenario =>
        /\ WrittenData.power.kind = "map"
        /\ WrittenData.power.val = [vg \in {"vgB", "vgC"} |->
                                        IF vg = "vgB" THEN Some(70) ELSE Some(100)]

\* C4 amended: in the end-to-end scenario the emitted power is
\* {vgB: 70, vgC: 70}: the override tagged vgB reaches every version group
\* of its generation, because the replay cut-off compares generations.
C4_EndToEnd ==
    C4_Scenario =>
        /\ Written
        /\ WrittenData.power.kind = "map"
        /\ WrittenData.power.val = [vg \in {"vgB", "vgC"} |-> Some(70)]

C4_Witness == C4_Scenario /\ Written /\ WrittenData.power.val["vgC"] = Some(70)

\* C5: with overrides E1 (generation 1, power 40) and E2 (generation 3,
\* power 60), in either array order and for any current power, every version
\* group of target generation 2 gets power 40 and every version group of
\* target generation 4 gets power 60.
C5_Chronological ==
    (MoveDone /\ raw.past_values \in {<<E_vgA_40, E_vgD_60>>, <<E_vgD_60, E_vgA_40>>}) =>
        /\ Written
        /\ WrittenData.power.kind = "map"
        /\ DOMAIN WrittenData.power.val = TargetVgs
        /\ target_gen = 2 => \A vg \in TargetVgs : WrittenData.power.val[vg] = Some(40)
        /\ target_gen = 4 => \A vg \in TargetVgs : WrittenData.power.val[vg] = Some(60)

C5_Witness ==
    /\ MoveDone
    /\ raw.past_values = <<E_vgD_60, E_vgA_40>>
    /\ raw.power = Some(100)
    /\ target_gen = 4
    /\ TargetVgs = {"vgE", "vgF"}
    /\ WrittenData.power.val["vgE"] = Some(60)
    /\ WrittenData.power.val["vgF"] = Some(60)

FieldUniform(fld) ==
    fld.kind = "map" => \A v1, v2 \in DOMAIN fld.val : fld.val[v1] = fld.val[v2]

C10_AsStated ==
    (out.done /\ TargetVgs = {}) =>
        /\ out.result.kind = "error"
        /\ out.file = None

(***************************************************************************)
(* Evolution chains.  A chain is a tree of species 1..n (1 is the root);   *)
(* parent[i] < i is the species i evolves from, gen[i] the generation of   *)
(* species i as its own species record gives it, details[i] the            *)
(* evolution_details list of the edge into i, and fail names the fetch     *)
(* species whose record cannot be fetched (NoSpecies: none); chain_ok      *)
(* tells whether the chain document itself can be fetched.                 *)
(***************************************************************************)
NoSpecies == 0
MaxNodes == 3
MaxEvoGen == 5
SpeciesGens == {1, 4, 5}

EdgeDetails(i) ==
    IF i % 3 = 2 THEN << >>
    ELSE IF i % 3 = 0 THEN <<"level-up">>
    ELSE <<"trade", "use-item">>

Chains ==
    UNION { { [n |-> n, parent |-> p, gen |-> g, chain_ok |-> f[1], fail |-> f[2]] :
                p \in {q \in [2..n -> 1..n] : \A i \in 2..n : q[i] < i},
                g \in [1..n -> SpeciesGens],
                f \in {<<FALSE, NoSpecies>>} \cup ({TRUE} \X ({NoSpecies} \cup 2..n)) } :
            n \in 1..MaxNodes }

\* chain.get("evolves_to", []): the children of a node, in array order.
RECURSIVE ChildrenFrom(_, _, _)
ChildrenFrom(c, node, i) ==
    IF i > c.n THEN << >>
    ELSE (IF c.parent[i] = node THEN <<i>> ELSE << >>) \o ChildrenFrom(c, node, i + 1)

evolves_to_of(c, node) == ChildrenFrom(c, node, 2)

\* details_list[0] if details_list else {}, then the flattened trigger.
flatten_details(details_list) ==
    IF details_list # << >> THEN Some(details_list[1]) ELSE None

\* recurse_chain without the generation test: every child is kept.
RECURSIVE recurse_chain_unfiltered(_, _, _)
recurse_chain_unfiltered(c, node, tgt) ==
    LET RECURSIVE build(_, _)
        build(children, i) ==
            IF i > Len(children) THEN << >>
            ELSE LET next_evolution == recurse_chain_unfiltered(c, children[i], tgt)
                 IN  << [species_name |-> next_evolution.species_name,
                         evolution_details |->
                             [trigger |-> flatten_details(EdgeDetails(children[i]))],
                         evolves_to |-> next_evolution.evolves_to] >>
                     \o build(children, i + 1)
    IN  [species_name |-> node, evolves_to |-> build(evolves_to_of(c, node), 1)]

\* recurse_chain that leaves the loop at the first future child (break for
\* continue): the later siblings are lost with it.
RECURSIVE recurse_chain_breaking(_, _, _)
recurse_chain_breaking(c, node, tgt) ==
    LET RECURSIVE build(_, _)
        build(children, i) ==
            IF i > Len(children) THEN << >>
            ELSE IF c.gen[children[i]] > tgt THEN << >>
            ELSE LET next_evolution == recurse_chain_breaking(c, children[i], tgt)
                 IN  << [species_name |-> next_evolution.species_name,
                         evolution_details |->
                             [trigger |-> flatten_details(EdgeDetails(children[i]))],
                         evolves_to |-> next_evolution.evolves_to] >>
                     \o build(children, i + 1)
    IN  [species_name |-> node, evolves_to |-> build(evolves_to_of(c, node), 1)]

\* recurse_chain (pokemon.py 144-208): a child whose species generation
\* exceeds the target is skipped with its subtree; the node itself is kept.
RECURSIVE recurse_chain(_, _, _)
recurse_chain(c, node, tgt) ==
    LET RECURSIVE build(_, _)
        build(children, i) ==
            IF i > Len(children) THEN << >>
            ELSE IF c.gen[children[i]] > tgt THEN build(children, i + 1)
            ELSE LET next_evolution == recurse_chain(c, children[i], tgt)
                 IN  << [species_name |-> next_evolution.species_name,
                         evolution_details |->
                             [trigger |-> flatten_details(EdgeDetails(children[i]))],
                         evolves_to |-> next_evolution.evolves_to] >>
                     \o build(children, i + 1)
    IN  [species_name |-> node, evolves_to |-> build(evolves_to_of(c, node), 1)]

\* The species of a resolved tree.
RECURSIVE NodesOf(_)
NodesOf(tree) ==
    {tree.species_name}
        \cup UNION {NodesOf(tree.evolves_to[i]) : i \in DOMAIN tree.evolves_to}

\* The species records recurse_chain fetches: every child of a kept node.
FetchedSpecies(c, tgt) ==
    LET kept == NodesOf(recurse_chain(c, 1, tgt))
    IN  {i \in 2..c.n : c.parent[i] \in kept}

\* _get_evolution_chain (pokemon.py 118-215): None when the chain fetch or a
\* species fetch raises, else the pruned tree.
_get_evolution_chain(c, tgt) ==
    IF ~c.chain_ok \/ c.fail \in FetchedSpecies(c, tgt)
    THEN None
    ELSE Some(recurse_chain(c, 1, tgt))

(***************************************************************************)
(* SpecEvo: one evolution chain is resolved for a target generation.  The  *)
(* chain is that of a species discovered for the target, so it holds at    *)
(* least one species of a generation not above the target.                 *)
(***************************************************************************)
InitEvo ==
    /\ AuxIdle
    /\ ProjIdle
    /\ RunIdle
    /\ CacheIdle
    /\ SpeciesIdle
    /\ generation_version_groups = << >>
    /\ target_gen \in 1..MaxEvoGen
    /\ chain \in Chains
    /\ \E i \in 1..chain.n : chain.gen[i] <= target_gen
    /\ evolution_chain = NotResolved

GetEvolutionChain ==
    /\ chain # << >>
    /\ ~evolution_chain.done
    /\ evolution_chain' = [done |-> TRUE, tree |-> _get_evolution_chain(chain, target_gen)]
    /\ UNCHANGED <<generation_version_groups, target_gen, raw, out, chain, scraped, parser,
                   cacheVars, runVars, auxVars>>

\* PokemonParser.process after the evolution chain (pokemon.py 667-741): the
\* chain, None included, goes into the species record, which is written, and
\* the species' summaries are returned.
SpeciesResult == [kind |-> "categories", name |-> "species", id |-> 1]
PokemonParser_process_species(tree) ==
    [result |-> SpeciesResult,
     file |-> Some(write_json_file("pokemon", "species",
                                   [name |-> "species", evolution_chain |-> tree]))]

ProcessChainSpecies ==
    /\ evolution_chain.done
    /\ ~out.done
    /\ out' = [done |-> TRUE] @@ PokemonParser_process_species(evolution_chain.tree)
    /\ UNCHANGED <<generation_version_groups, target_gen, raw, chain, evolution_chain,
                   scraped, parser, cacheVars, runVars, auxVars>>

NextEvo == GetEvolutionChain \/ ProcessChainSpecies

SpecEvo == InitEvo /\ [][NextEvo]_vars

(***************************************************************************)
(* Claims about the evolution chain, checked under SpecEvo.                *)
(***************************************************************************)
Resolved == evolution_chain.done /\ evolution_chain.tree # None
ResolvedNodes == NodesOf(evolution_chain.tree[1])

\* The ancestors of a species other than the root, the species included.
RECURSIVE PathBelowRoot(_, _)
PathBelowRoot(c, i) == IF i = 1 THEN {} ELSE {i} \cup PathBelowRoot(c, c.parent[i])

\* C7 as stated: no node of the returned tree, the root included, has an
\* introduction generation above the target, and every node of the source
\* chain whose introduction generation is at most the target appears.
C7_AsStated ==
    Resolved =>
        /\ \A i \in ResolvedNodes : chain.gen[i] <= target_gen
        /\ \A i \in 1..chain.n : chain.gen[i] <= target_gen => i \in ResolvedNodes

\* C7 amended: the root always appears, whatever its generation; a species
\* other than the root appears exactly when its own generation and the
\* generation of each of its ancestors below the root are at most the
\* target.  So no node other than the root has a generation above the
\* target, and a species of generation 5 below the root is absent for
\* target 4.
C7_Pruning ==
    Resolved =>
        /\ 1 \in ResolvedNodes
        /\ \A i \in 2..chain.n :
              i \in ResolvedNodes <=>
                  \A a \in PathBelowRoot(chain, i) : chain.gen[a] <= target_gen
        /\ \A i \in ResolvedNodes \ {1} : chain.gen[i] <= target_gen

C7_Witness ==
    /\ Resolved
    /\ target_gen = 4
    /\ chain.n = 3
    /\ chain.gen[1] = 5
    /\ chain.gen[2] = 5
    /\ chain.parent[3] = 2
    /\ chain.gen[3] = 4
    /\ ResolvedNodes = {1}

(***************************************************************************)
(* Species records and the secondary source.  A scraped change is          *)
(* [generations, change]; a key absent from the change dict is None.       *)
(***************************************************************************)
MaxChanges == 2

Change(ability, stats, types, capture_rate) ==
    [ability |-> ability, stats |-> stats, types |-> types,
     base_experience |-> None, base_happiness |-> None,
     capture_rate |-> capture_rate, ev_yield |-> None]

ScrapedCatalogue ==
    { [generations |-> {1}, change |-> Change(None, None, Some(<<"normal">>), None)],
      [generations |-> {1, 2, 3},
       change |-> Change(None, Some([attack |-> 50]), None, None)],
      [generations |-> {2, 3}, change |-> Change(Some("static"), None, None, None)],
      [generations |-> {3}, change |-> Change(None, None, None, Some(45))] }

ScrapedLists == SeqsUpTo(ScrapedCatalogue, MaxChanges)

\* The default pokemon record of the species, as the API gives it today.
PokemonRecord ==
    [id |-> 35, name |-> "clefairy", species |-> "clefairy",
     types |-> <<"fairy">>,
     abilities |-> << [name |-> "friend-guard", is_hidden |-> TRUE],
                      [name |-> "cute-charm", is_hidden |-> FALSE],
                      [name |-> "magic-guard", is_hidden |-> FALSE] >>,
     stats |-> [hp |-> 70, attack |-> 45],
     base_experience |-> Some(113), base_happiness |-> Some(140),
     capture_rate |-> Some(150), ev_yield |-> Some(<<"hp">>)]

\* scrape_pokemon_changes as the parser would call it: the change log.
scraper_func(name, log) == [changes |-> log]

\* dict.update on the stats dict.
StatsUpdate(stats, upd) ==
    [k \in DOMAIN stats |-> IF k \in DOMAIN upd THEN upd[k] ELSE stats[k]]

\* The first ability that is not hidden gets the scraped name.
FirstVisible(abilities) ==
    IF \E i \in DOMAIN abilities : ~abilities[i].is_hidden
    THEN CHOOSE i \in DOMAIN abilities :
            /\ ~abilities[i].is_hidden
            /\ \A j \in DOMAIN abilities : ~abilities[j].is_hidden => i <= j
    ELSE 0

\* The body of the loop of _apply_historical_changes (pokemon.py 88-116).
apply_change(cleaned_data, change_item, tgt) ==
    LET change == change_item.change
        v == FirstVisible(cleaned_data.abilities)
    IN  IF tgt \notin change_item.generations THEN cleaned_data
        ELSE [cleaned_data EXCEPT
                !.abilities = IF change.ability # None /\ v # 0
                              THEN [@ EXCEPT ![v].name = change.ability[1]] ELSE @,
                !.stats = IF change.stats # None THEN StatsUpdate(@, change.stats[1]) ELSE @,
                !.types = IF change.types # None THEN change.types[1] ELSE @,
                !.base_experience = IF change.base_experience # None
                                    THEN change.base_experience ELSE @,
                !.base_happiness = IF change.base_happiness # None
                                   THEN change.base_happiness ELSE @,
                !.capture_rate = IF change.capture_rate # None
                                 THEN change.capture_rate ELSE @,
                !.ev_yield = IF change.ev_yield # None THEN change.ev_yield ELSE @]

RECURSIVE apply_changes(_, _, _, _)
apply_changes(cleaned_data, all_changes, i, tgt) ==
    IF i > Len(all_changes) THEN cleaned_data
    ELSE apply_changes(apply_change(cleaned_data, all_changes[i], tgt),
                       all_changes, i + 1, tgt)

\* PokemonParser._apply_historical_changes (pokemon.py 62-116).
_apply_historical_changes(self, cleaned_data, log, tgt) ==
    IF tgt = 0 \/ self.scraper_func = None THEN cleaned_data
    ELSE LET scraper_data == scraper_func(cleaned_data.species, log)
         IN  apply_changes(cleaned_data, scraper_data.changes, 1, tgt)

\* PokemonParser._process_default_pokemon (pokemon.py 513-527).
_process_default_pokemon(self, pokemon_data, log, tgt) ==
    LET default_template ==
            IF self.is_historical
            THEN _apply_historical_changes(self, pokemon_data, log, tgt)
            ELSE pokemon_data
    IN  [result |-> DictResult(default_template.name, default_template.id),
         file |-> Some(write_json_file("pokemon", default_template.name, default_template))]

\* PokemonParser.__init__ as run_parsers calls it (__main__.py 172-185):
\* is_historical and target_versions are passed, scraper_func is not and
\* keeps its default None.
PokemonParser_init(is_historical) ==
    [built |-> TRUE, is_historical |-> is_historical, scraper_func |-> None]

(***************************************************************************)
(* SpecSpecies: main builds the species parser, which processes the        *)
(* default pokemon of one species that has no primary-source override.     *)
(***************************************************************************)
InitSpecies ==
    /\ AuxIdle
    /\ EvoIdle
    /\ RunIdle
    /\ CacheIdle
    /\ \E world \in ApiWorlds :
         \E tgt \in 1..get_latest_generation(world) :
            /\ target_gen = tgt
            /\ generation_version_groups = gather_initial_data(world, tgt)
            /\ raw = [latest_gen_num |-> get_latest_generation(world),
                      pokemon |-> PokemonRecord]
    /\ scraped \in ScrapedLists
    /\ parser = NoParser
    /\ out = NotProcessed

\* main (__main__.py 277) and run_parsers (__main__.py 170-186).
RunParsers ==
    /\ raw # << >>
    /\ ~parser.built
    /\ parser' = PokemonParser_init(target_gen < raw.latest_gen_num)
    /\ UNCHANGED <<generation_version_groups, target_gen, raw, out, chain,
                   evolution_chain, scraped, cacheVars, runVars, auxVars>>

ProcessSpecies ==
    /\ parser.built
    /\ ~out.done
    /\ LET r == _process_default_pokemon(parser, raw.pokemon, scraped, target_gen)
       IN  out' = [done |-> TRUE, result |-> r.result, file |-> r.file]
    /\ UNCHANGED <<generation_version_groups, target_gen, raw, chain,
                   evolution_chain, scraped, parser, cacheVars, runVars, auxVars>>

NextSpecies == RunParsers \/ ProcessSpecies

SpecSpecies == InitSpecies /\ [][NextSpecies]_vars

(***************************************************************************)
(* Claims about the scraper fallback, checked under SpecSpecies.           *)
(***************************************************************************)
TypesChange == [generations |-> {1}, change |-> Change(None, None, Some(<<"normal">>), None)]

\* C8 as stated: a historical run for a generation in which the species has
\* one scraped change (here: its types were <<"normal">> in generation 1)
\* and no primary-source override writes a species record that reflects the
\* scraped change.
C8_AsStated ==
    (out.done /\ target_gen = 1 /\ scraped = <<TypesChange>>) =>
        /\ Written
        /\ WrittenData.types = <<"normal">>

(***************************************************************************)
(* ApiClient.get.  The memory map and the cache directory are functions    *)
(* from the cached urls; a payload is [url, fetched_at].                   *)
(***************************************************************************)
MaxTime == 3
MaxCalls == 3
MaxProcs == 2
Urls == {"u1", "u2"}
CacheExpiresOptions == {None, Some(0), Some(2)}

\* d[k] = v on a dict.
Put(d, k, v) == [x \in DOMAIN d \cup {k} |-> IF x = k THEN v ELSE d[x]]

\* ApiClient.__init__ (api_client.py 37-41): an empty memory map.
ApiClient_init(proc, cache_dir, cache_expires) ==
    [proc |-> proc, cache |-> << >>, cache_dir |-> cache_dir,
     cache_expires |-> cache_expires]

\* FileHit with <= for <.
FileHitInclusive(self, files, url, t) ==
    /\ self.cache_dir
    /\ self.cache_expires # None
    /\ url \in DOMAIN files
    /\ t - files[url].mtime <= self.cache_expires[1]

\* The file-cache test of api_client.py 94-101.
FileHit(self, files, url, t) ==
    /\ self.cache_dir
    /\ self.cache_expires # None
    /\ url \in DOMAIN files
    /\ t - files[url].mtime < self.cache_expires[1]

\* ApiClient.get with a memory map that expires like the files do: a memory
\* entry older than cache_expires is fetched again.
ApiClient_get_expiring(self, files, url, t, fetch_ok) ==
    IF /\ url \in DOMAIN self.cache
       /\ (self.cache_expires = None
             \/ t - self.cache[url].fetched_at < self.cache_expires[1])
    THEN [client |-> self, disk |-> files, source |-> "memory",
          data |-> Some(self.cache[url])]
    ELSE IF FileHit(self, files, url, t)
    THEN [client |-> [self EXCEPT !.cache = Put(self.cache, url, files[url].payload)],
          disk |-> files, source |-> "file", data |-> Some(files[url].payload)]
    ELSE IF ~fetch_ok
    THEN [client |-> self, disk |-> files, source |-> "error", data |-> None]
    ELSE LET data == [url |-> url, fetched_at |-> t]
         IN  [client |-> [self EXCEPT !.cache = Put(self.cache, url, data)],
              disk |-> IF self.cache_dir /\ self.cache_expires # None
                       THEN Put(files, url, [mtime |-> t, payload |-> data])
                       ELSE files,
              source |-> "network", data |-> Some(data)]

\* ApiClient.get that remembers a failure: the url is stored with an empty
\* payload and the next get answers from memory.
ApiClient_get_negative(self, files, url, t, fetch_ok) ==
    IF url \in DOMAIN self.cache
    THEN [client |-> self, disk |-> files, source |-> "memory",
          data |-> Some(self.cache[url])]
    ELSE IF FileHit(self, files, url, t)
    THEN [client |-> [self EXCEPT !.cache = Put(self.cache, url, files[url].payload)],
          disk |-> files, source |-> "file", data |-> Some(files[url].payload)]
    ELSE IF ~fetch_ok
    THEN [client |-> [self EXCEPT !.cache = Put(self.cache, url,
                                                [url |-> "", fetched_at |-> t])],
          disk |-> files, source |-> "error", data |-> None]
    ELSE LET data == [url |-> url, fetched_at |-> t]
         IN  [client |-> [self EXCEPT !.cache = Put(self.cache, url, data)],
              disk |-> IF self.cache_dir /\ self.cache_expires # None
                       THEN Put(files, url, [mtime |-> t, payload |-> data])
                       ELSE files,
              source |-> "network", data |-> Some(data)]

\* ApiClient.get (api_client.py 66-124) at time t; fetch_ok tells whether
\* the HTTP request and the JSON decoding succeed.  source names where the
\* answer came from; "network" and "error" are the calls that hit the network.
ApiClient_get(self, files, url, t, fetch_ok) ==
    IF url \in DOMAIN self.cache
    THEN [client |-> self, disk |-> files, source |-> "memory",
          data |-> Some(self.cache[url])]
    ELSE IF FileHit(self, files, url, t)
    THEN [client |-> [self EXCEPT !.cache = Put(self.cache, url, files[url].payload)],
          disk |-> files, source |-> "file", data |-> Some(files[url].payload)]
    ELSE IF ~fetch_ok
    THEN [client |-> self, disk |-> files, source |-> "error", data |-> None]
    ELSE LET data == [url |-> url, fetched_at |-> t]
         IN  [client |-> [self EXCEPT !.cache = Put(self.cache, url, data)],
              disk |-> IF self.cache_dir /\ self.cache_expires # None
                       THEN Put(files, url, [mtime |-> t, payload |-> data])
                       ELSE files,
              source |-> "network", data |-> Some(data)]

(***************************************************************************)
(* SpecCache: one caller at a time calls get; time passes; the process     *)
(* ends and a new one starts with a fresh ApiClient over the same cache    *)
(* directory.                                                              *)
(***************************************************************************)
restVars == <<generation_version_groups, target_gen, raw, out, chain, evolution_chain,
              scraped, parser>>

InitCache ==
    /\ AuxIdle
    /\ ProjIdle
    /\ RunIdle
    /\ EvoIdle
    /\ SpeciesIdle
    /\ generation_version_groups = << >>
    /\ target_gen = 0
    /\ \E dir \in BOOLEAN, expires \in CacheExpiresOptions :
          client = ApiClient_init(1, dir, expires)
    /\ disk = << >>
    /\ now = 0
    /\ calls = << >>

Get(url, fetch_ok) ==
    /\ client.proc > 0
    /\ Len(calls) < MaxCalls
    /\ LET r == ApiClient_get(client, disk, url, now, fetch_ok)
       IN  /\ client' = r.client
           /\ disk' = r.disk
           /\ calls' = Append(calls, [url |-> url, proc |-> client.proc, t |-> now,
                                      source |-> r.source, data |-> r.data])
    /\ UNCHANGED <<now, restVars, runVars, auxVars>>

Tick ==
    /\ client.proc > 0
    /\ now < MaxTime
    /\ now' = now + 1
    /\ UNCHANGED <<client, disk, calls, restVars, runVars, auxVars>>

Restart ==
    /\ client.proc > 0
    /\ client.proc < MaxProcs
    /\ client' = ApiClient_init(client.proc + 1, client.cache_dir, client.cache_expires)
    /\ UNCHANGED <<disk, now, calls, restVars, runVars, auxVars>>

NextCache ==
    \/ \E url \in Urls, fetch_ok \in BOOLEAN : Get(url, fetch_ok)
    \/ Tick
    \/ Restart

SpecCache == InitCache /\ [][NextCache]_vars

(***************************************************************************)
(* Claims about the cache, checked under SpecCache.                        *)
(***************************************************************************)
Answered(i) == calls[i].source # "error"
HitNetwork(i) == calls[i].source \in {"network", "error"}
FileCaching == client.cache_dir /\ client.cache_expires # None
Ttl == client.cache_expires[1]

\* The successful fetches of call j's url before call j.
FetchesBefore(j) ==
    {i \in 1..(j - 1) : calls[i].url = calls[j].url /\ calls[i].source = "network"}
LastFetchBefore(j) ==
    CHOOSE i \in FetchesBefore(j) : \A k \in FetchesBefore(j) : k <= i
AnsweredBeforeInProc(j) ==
    \E i \in 1..(j - 1) :
        /\ calls[i].url = calls[j].url
        /\ calls[i].proc = calls[j].proc
        /\ Answered(i)

\* C3 as stated: of two answered calls of get(url) within the TTL window
\* exactly one goes to the network, and an answered call made once the TTL
\* has expired goes to the network again.
C3_AsStated ==
    (FileCaching /\ Ttl > 0) =>
        \A j \in DOMAIN calls :
            (Answered(j) /\ FetchesBefore(j) # {}) =>
                IF calls[j].t - calls[LastFetchBefore(j)].t < Ttl
                THEN ~HitNetwork(j)
                ELSE HitNetwork(j)

\* C3 amended: the memory map never expires.  On one ApiClient, every call
\* of get(url) after an answered one is served from memory without a
\* network call, also after the TTL has expired.  Only the first call of a
\* new ApiClient (a new process) looks at the file: it makes no network
\* call if file caching is on and the last fetch of url is less than the TTL
\* old, and exactly one network call otherwise.
C3_CacheIdempotence ==
    \A j \in DOMAIN calls :
        IF AnsweredBeforeInProc(j)
        THEN calls[j].source = "memory"
        ELSE IF /\ FileCaching
                /\ FetchesBefore(j) # {}
                /\ calls[j].t - calls[LastFetchBefore(j)].t < Ttl
        THEN calls[j].source = "file"
        ELSE HitNetwork(j)

C3_Witness ==
    /\ FileCaching
    /\ Ttl > 0
    /\ Len(calls) = 3
    /\ \A j \in 1..3 : calls[j].url = "u1" /\ calls[j].proc = 1
    /\ calls[1].source = "network"
    /\ calls[2].source = "memory"
    /\ calls[2].t - calls[1].t < Ttl
    /\ calls[3].source = "memory"
    /\ calls[3].t - calls[1].t >= Ttl

(***************************************************************************)
(* main, run_parsers and BaseParser.run: one parser is built and run over  *)
(* a thread pool of max_workers workers.                                   *)
(***************************************************************************)
MaxRefs == 3
WorkerCounts == {1, 2}
ParserNames == {"ability", "move", "item", "pokemon"}
GenerationParsers == {"ability", "move", "pokemon"}
ArgsGen == {0, 1, 2}

RefName(r) == ToString(r)

\* The generation that introduced resource r.
GenOf(r) == ((r - 1) % 4) + 1

\* The API lists resources in its own order, which is not the id order: here
\* the highest id comes first.
ApiListing == [i \in 1..MaxRefs |-> MaxRefs + 1 - i]

\* generation/<n>: the resources of the parser's endpoint introduced in n.
resources_in_gen(generation_num) ==
    SelectSeq(ApiListing, LAMBDA r : GenOf(r) = generation_num)

\* GenerationParser._get_all_item_refs (generation.py 21-58): generations
\* 1..target_gen in order; a generation whose fetch fails is logged and left
\* out, the loop goes on.
RECURSIVE collect_generations(_, _, _)
collect_generations(generation_num, tgt, failed) ==
    IF generation_num > tgt
    THEN << >>
    ELSE (IF generation_num \in failed THEN << >> ELSE resources_in_gen(generation_num))
         \o collect_generations(generation_num + 1, tgt, failed)

GenerationParser_get_all_item_refs(tgt, failed) ==
    IF tgt # 0 THEN collect_generations(1, tgt, failed) ELSE << >>

\* ItemParser._get_all_item_refs (item.py 59-60): the flat listing.
ItemParser_get_all_item_refs == ApiListing

\* What the API holds for one reference.
Resources ==
    [fetch_ok : BOOLEAN, game_indices : SUBSET {1, 2}, has_variant : BOOLEAN]

ProcessOutput(result, summaries) == [result |-> result, summaries |-> summaries]
CategoryResult(name, id) == [kind |-> "categories", name |-> name, id |-> id]
Summary(name, id) == [name |-> name, id |-> id]

\* AbilityParser.process and MoveParser.process, as the runner sees them: an
\* error string or the summary dict.
GenerationParser_process(r, data) ==
    IF ~data.fetch_ok
    THEN ProcessOutput(ErrorResult(RefName(r)), NoSummaries)
    ELSE ProcessOutput(DictResult(RefName(r), r), NoSummaries)

\* ItemParser.process (item.py 78-140).
ItemParser_process(r, data, tgt) ==
    IF ~data.fetch_ok
    THEN ProcessOutput(ErrorResult(RefName(r)), NoSummaries)
    ELSE IF data.game_indices = {}
    THEN ProcessOutput(NoneResult, NoSummaries)
    ELSE IF tgt \in data.game_indices
    THEN ProcessOutput(DictResult(RefName(r), r), NoSummaries)
    ELSE ProcessOutput(NoneResult, NoSummaries)

\* PokemonParser.process (pokemon.py 636-740): the four-category dict.
PokemonParser_process(r, data) ==
    IF ~data.fetch_ok
    THEN ProcessOutput(ErrorResult(RefName(r)), NoSummaries)
    ELSE IF data.game_indices = {}
    THEN ProcessOutput(NoneResult, NoSummaries)
    ELSE ProcessOutput(CategoryResult(RefName(r), r),
             [NoSummaries EXCEPT
                 !.pokemon = << Summary(RefName(r), r) >>,
                 !.variant = IF data.has_variant
                             THEN << Summary(RefName(r) \o "-alola", r + 10000) >>
                             ELSE << >>])

process(parser_name, r, data, tgt) ==
    IF parser_name = "item" THEN ItemParser_process(r, data, tgt)
    ELSE IF parser_name = "pokemon" THEN PokemonParser_process(r, data)
    ELSE GenerationParser_process(r, data)

\* The body of the as_completed loop with the error branch of base.py
\* 160-161 left out.
collect_dropping_errors(acc, output) ==
    IF output.result.kind = "categories"
    THEN [acc EXCEPT !.pokemon_summaries =
             [k \in DOMAIN acc.pokemon_summaries |->
                 acc.pokemon_summaries[k] \o output.summaries[k]]]
    ELSE IF output.result.kind = "dict"
    THEN [acc EXCEPT !.summary_data =
             Append(acc.summary_data, Summary(output.result.name, output.result.id))]
    ELSE acc

\* The body of the as_completed loop with "elif result is not None" of
\* base.py 160 replaced by "else".
collect_none_as_error(acc, output) ==
    IF output.result.kind = "categories"
    THEN [acc EXCEPT !.pokemon_summaries =
             [k \in DOMAIN acc.pokemon_summaries |->
                 acc.pokemon_summaries[k] \o output.summaries[k]]]
    ELSE IF output.result.kind = "dict"
    THEN [acc EXCEPT !.summary_data =
             Append(acc.summary_data, Summary(output.result.name, output.result.id))]
    ELSE [acc EXCEPT !.errors = Append(acc.errors, output.result.name)]

\* The body of the as_completed loop (base.py 143-161).  No parser's process
\* returns a list, so the list branch is not taken.
collect(acc, output) ==
    IF output.result.kind = "categories"
    THEN [acc EXCEPT !.pokemon_summaries =
             [k \in DOMAIN acc.pokemon_summaries |->
                 acc.pokemon_summaries[k] \o output.summaries[k]]]
    ELSE IF output.result.kind = "dict"
    THEN [acc EXCEPT !.summary_data =
             Append(acc.summary_data, Summary(output.result.name, output.result.id))]
    ELSE IF output.result.kind # "none"
    THEN [acc EXCEPT !.errors = Append(acc.errors, output.result.name)]
    ELSE acc

\* A sort that leaves the list in the order of collection.
SortById_unsorted(xs) == xs

\* list.sort(key=lambda x: x.get("id", 0)): a stable sort by id.
SortById(xs) ==
    LET Rank(i) == 1 + Cardinality({j \in DOMAIN xs :
                                      \/ xs[j].id < xs[i].id
                                      \/ xs[j].id = xs[i].id /\ j < i})
    IN  [k \in 1..Len(xs) |-> xs[CHOOSE i \in DOMAIN xs : Rank(i) = k]]

\* base.py 171-181: the return value of run.
return_value(summaries, summary) ==
    IF \E k \in DOMAIN summaries : summaries[k] # << >>
    THEN [kind |-> "map",
          pokemon |-> SortById(summaries.pokemon),
          variant |-> SortById(summaries.variant),
          list |-> << >>]
    ELSE [kind |-> "list", pokemon |-> << >>, variant |-> << >>,
          list |-> SortById(summary)]

EmptyReturn == [kind |-> "list", pokemon |-> << >>, variant |-> << >>, list |-> << >>]

Pending(ref) == [ref |-> ref, state |-> "pending",
                 output |-> ProcessOutput(NoneResult, NoSummaries)]

Init ==
    /\ AuxIdle
    /\ ProjIdle
    /\ EvoIdle
    /\ SpeciesIdle
    /\ CacheIdle
    /\ generation_version_groups = << >>
    /\ target_gen = 0
    /\ \E name \in ParserNames, workers \in WorkerCounts :
          runner = [phase |-> "main", parser_name |-> name, max_workers |-> workers,
                    failed |-> {}, returned |-> None]
    /\ all_references = << >>
    /\ future_map = << >>
    /\ summary_data = << >>
    /\ pokemon_summaries = NoSummaries
    /\ errors = << >>

\* main (__main__.py 270-287): the target generation and the epoch index; a
\* failure is GenerationNotFoundError and sys.exit(1).
Gather(world, gen, ok) ==
    /\ runner.phase = "main"
    /\ IF ok
       THEN LET latest_gen_num == get_latest_generation(world)
                tgt == IF gen # 0 /\ gen <= latest_gen_num THEN gen ELSE latest_gen_num
            IN  /\ target_gen' = tgt
                /\ generation_version_groups' = gather_initial_data(world, tgt)
                /\ runner' = [runner EXCEPT !.phase = "gathered"]
       ELSE /\ runner' = [runner EXCEPT !.phase = "aborted"]
            /\ UNCHANGED <<target_gen, generation_version_groups, auxVars>>
    /\ UNCHANGED <<raw, out, chain, evolution_chain, scraped, parser, cacheVars,
                   all_references, future_map, summary_data, pokemon_summaries, errors,
                   auxVars>>

\* BaseParser.run up to the end of the submit loop (base.py 114-135).
\* failed is the set of generation fetches that fail; listing_ok tells
\* whether the item listing can be fetched, and its failure propagates to
\* main's "except Exception" and sys.exit(1).
Discover(failed, listing_ok) ==
    /\ runner.phase = "gathered"
    /\ IF runner.parser_name \in GenerationParsers
       THEN LET refs == GenerationParser_get_all_item_refs(target_gen, failed)
            IN  /\ all_references' = refs
                /\ future_map' = [i \in DOMAIN refs |-> Pending(refs[i])]
                /\ runner' = [runner EXCEPT
                                 !.failed = failed,
                                 !.phase = IF refs = << >> THEN "returned" ELSE "pool",
                                 !.returned = IF refs = << >> THEN Some(EmptyReturn)
                                              ELSE None]
       ELSE IF listing_ok
       THEN LET refs == ItemParser_get_all_item_refs
            IN  /\ all_references' = refs
                /\ future_map' = [i \in DOMAIN refs |-> Pending(refs[i])]
                /\ runner' = [runner EXCEPT
                                 !.phase = IF refs = << >> THEN "returned" ELSE "pool",
                                 !.returned = IF refs = << >> THEN Some(EmptyReturn)
                                              ELSE None]
       ELSE /\ runner' = [runner EXCEPT !.phase = "aborted", !.failed = {0}]
            /\ UNCHANGED <<all_references, future_map, auxVars>>
    /\ UNCHANGED <<generation_version_groups, target_gen, raw, out, chain,
                   evolution_chain, scraped, parser, cacheVars, summary_data,
                   pokemon_summaries, errors, auxVars>>

\* The worker threads run while the executor is open and while its
\* shutdown(wait=True) waits for them.
WorkerPhases == {"pool", "interrupted"}

\* Workers that are never handed back to the pool: a task that has
\* finished keeps its worker.
Running_never_freed == {i \in DOMAIN future_map : future_map[i].state # "pending"}

\* A pool that counts no worker as busy.
Running_uncounted == {i \in DOMAIN future_map : FALSE}

Running == {i \in DOMAIN future_map : future_map[i].state = "running"}

\* A free worker takes the oldest queued task.
Start(i) ==
    /\ runner.phase \in WorkerPhases
    /\ future_map[i].state = "pending"
    /\ \A j \in 1..(i - 1) : future_map[j].state # "pending"
    /\ Cardinality(Running) < runner.max_workers
    /\ future_map' = [future_map EXCEPT ![i].state = "running"]
    /\ UNCHANGED <<generation_version_groups, target_gen, raw, out, chain,
                   evolution_chain, scraped, parser, cacheVars, runner, all_references,
                   summary_data, pokemon_summaries, errors, auxVars>>

\* The worker's call of self.process(ref) returns.
Finish(i, data) ==
    /\ runner.phase \in WorkerPhases
    /\ future_map[i].state = "running"
    /\ future_map' = [future_map EXCEPT
                         ![i].state = "finished",
                         ![i].output = process(runner.parser_name, future_map[i].ref,
                                               data, target_gen)]
    /\ UNCHANGED <<generation_version_groups, target_gen, raw, out, chain,
                   evolution_chain, scraped, parser, cacheVars, runner, all_references,
                   summary_data, pokemon_summaries, errors, auxVars>>

\* One iteration of the as_completed loop: a finished future is yielded.
Collect(i) ==
    /\ runner.phase = "pool"
    /\ future_map[i].state = "finished"
    /\ LET acc == collect([summary_data |-> summary_data,
                           pokemon_summaries |-> pokemon_summaries,
                           errors |-> errors], future_map[i].output)
       IN  /\ summary_data' = acc.summary_data
           /\ pokemon_summaries' = acc.pokemon_summaries
           /\ errors' = acc.errors
    /\ future_map' = [future_map EXCEPT ![i].state = "collected"]
    /\ UNCHANGED <<generation_version_groups, target_gen, raw, out, chain,
                   evolution_chain, scraped, parser, cacheVars, runner, all_references,
                   auxVars>>

\* base.py 163-181: the loop is over, the lists are sorted and returned.
Return ==
    /\ runner.phase = "pool"
    /\ \A i \in DOMAIN future_map : future_map[i].state = "collected"
    /\ summary_data' = SortById(summary_data)
    /\ pokemon_summaries' = [k \in DOMAIN pokemon_summaries |->
                                SortById(pokemon_summaries[k])]
    /\ runner' = [runner EXCEPT
                     !.phase = "returned",
                     !.returned = Some(return_value(pokemon_summaries, summary_data))]
    /\ UNCHANGED <<generation_version_groups, target_gen, raw, out, chain,
                   evolution_chain, scraped, parser, cacheVars, all_references,
                   future_map, errors, auxVars>>

Next ==
    \/ \E world \in ApiWorlds, gen \in ArgsGen, ok \in BOOLEAN : Gather(world, gen, ok)
    \/ \E failed \in SUBSET (1..target_gen), listing_ok \in BOOLEAN :
          Discover(failed, listing_ok)
    \/ \E i \in DOMAIN future_map : Start(i)
    \/ \E i \in DOMAIN future_map, data \in Resources : Finish(i, data)
    \/ \E i \in DOMAIN future_map : Collect(i)
    \/ Return

Spec == Init /\ [][Next]_vars

(***************************************************************************)
(* Claims about the runner, checked under Spec.                            *)
(***************************************************************************)
ResultKind(i) == future_map[i].output.result.kind
Collected(i) == future_map[i].state = "collected"
CollectedOfKind(kinds) ==
    {i \in DOMAIN future_map : Collected(i) /\ ResultKind(i) \in kinds}

\* The contributions of reference i: its entries in the summary list or in
\* the category map's species list, and its entries in the error list.
SuccessOf(i) ==
    Cardinality({k \in DOMAIN summary_data :
                    summary_data[k].name = RefName(future_map[i].ref)})
    + Cardinality({k \in DOMAIN pokemon_summaries.pokemon :
                    pokemon_summaries.pokemon[k].name = RefName(future_map[i].ref)})
ErrorOf(i) ==
    Cardinality({k \in DOMAIN errors : errors[k] = RefName(future_map[i].ref)})

\* C1 as stated: when run returns, every discovered reference has made
\* exactly one contribution, a success or an error, never both and never
\* neither.
C1_AsStated ==
    runner.phase = "returned" =>
        \A i \in DOMAIN future_map : SuccessOf(i) + ErrorOf(i) = 1

\* C1 amended: a reference contributes once its future has been collected,
\* and what it contributes follows from what process returned: an error
\* string gives exactly one error entry and no success, a summary dict or a
\* category dict gives exactly one success and no error, and None (the
\* resource is skipped) gives neither.  Nothing else is in the lists.
C1_Contributions ==
    /\ \A i \in DOMAIN future_map :
          /\ SuccessOf(i) = IF Collected(i) /\ ResultKind(i) \in {"dict", "categories"}
                            THEN 1 ELSE 0
          /\ ErrorOf(i) = IF Collected(i) /\ ResultKind(i) = "error" THEN 1 ELSE 0
    /\ Len(errors) = Cardinality(CollectedOfKind({"error"}))
    /\ Len(summary_data) = Cardinality(CollectedOfKind({"dict"}))
    /\ Len(pokemon_summaries.pokemon) = Cardinality(CollectedOfKind({"categories"}))

C1_Witness ==
    /\ runner.phase = "returned"
    /\ runner.parser_name = "item"
    /\ \E i, j, k \in DOMAIN future_map :
          /\ ResultKind(i) = "none" /\ SuccessOf(i) + ErrorOf(i) = 0
          /\ ResultKind(j) = "dict" /\ SuccessOf(j) = 1
          /\ ResultKind(k) = "error" /\ ErrorOf(k) = 1

Successes == Len(summary_data) + Len(pokemon_summaries.pokemon)
OneErrorOnly ==
    /\ Cardinality({i \in DOMAIN future_map : ResultKind(i) = "error"}) = 1
    /\ \A i \in DOMAIN future_map : ResultKind(i) \in {"error", "dict", "categories"}

\* C2: an error from processing a reference never aborts run.  The run is
\* aborted only before any reference is submitted; when it returns every
\* reference has been processed and collected; and if exactly one of the N
\* references errors and the others succeed, it returns N-1 successes and
\* exactly one recorded error.
C2_ErrorIsolation ==
    /\ runner.phase = "aborted" => future_map = << >>
    /\ runner.phase = "returned" =>
          /\ \A i \in DOMAIN future_map : Collected(i)
          /\ OneErrorOnly =>
                /\ Successes = Len(all_references) - 1
                /\ Len(errors) = 1

C2_Witness ==
    /\ runner.phase = "returned"
    /\ Len(all_references) >= 3
    /\ OneErrorOnly
    /\ ResultKind(1) = "error"
    /\ Successes = Len(all_references) - 1
    /\ errors = << RefName(all_references[1]) >>

\* C9 as stated: a discovery error is fatal, so once a fetch of the
\* discovery has failed no reference is processed.
C9_AsStated ==
    runner.failed # {} =>
        \A i \in DOMAIN future_map : future_map[i].state = "pending"

\* C11 as stated: with a TTL that is zero or absent there is no file-level
\* caching: no cache file is written and no call is answered from a file.
C11_AsStated ==
    (client.proc > 0 /\ client.cache_expires \in {None, Some(0)}) =>
        /\ disk = << >>
        /\ \A j \in DOMAIN calls : calls[j].source # "file"

\* C12 as stated, for the fetches of the evolution chain: when a fetch made
\* for the chain or for one of its species fails while the species is being
\* processed, the species' result is an error.
C12_AsStated ==
    (out.done /\ chain # << >> /\ evolution_chain.tree = None) =>
        out.result.kind = "error"

(***************************************************************************)
(* The HTTP session of ApiClient: the retry adapter that _setup_session    *)
(* mounts on "https://", seen over one get call made by a process          *)
(* function.                                                               *)
(***************************************************************************)
MaxRetries == 3
SERVER_ERROR_CODES == {500, 502, 503, 504}
Schemes == {"https", "http"}

\* What a URL answers: always the same status, or a server error for the
\* first failing attempts and 200 afterwards.
Servers ==
    [failing : {0}, status : {200, 404, 500, 502, 503, 504}]
    \cup [failing : 1..(MaxRetries + 1), status : {200}]

StatusAt(server, attempt) ==
    IF attempt <= server.failing THEN 503 ELSE server.status

\* exhausted with one retry too many.
exhausted_late(attempts, max_retries) == attempts - 1 > max_retries

\* Retry.increment and is_exhausted for Retry(total=max_retries): the
\* attempts made so far have used up the retries.
exhausted(attempts, max_retries) == attempts - 1 >= max_retries

\* The adapter retries a response only on "https://" (api_client.py 63) and
\* only for a status of status_forcelist.
is_retry(scheme, status) == scheme = "https" /\ status \in SERVER_ERROR_CODES

InitRetry ==
    /\ ProjIdle
    /\ EvoIdle
    /\ SpeciesIdle
    /\ CacheIdle
    /\ RunIdle
    /\ ThreadsIdle
    /\ ProjectionsIdle
    /\ generation_version_groups = << >>
    /\ target_gen = 0
    /\ \E scheme \in Schemes, max_retries \in 0..MaxRetries, server \in Servers :
          http = [phase |-> "process", scheme |-> scheme, max_retries |-> max_retries,
                  server |-> server, gets |-> 0, attempts |-> 0, status |-> 0,
                  result |-> "none"]

\* The process function calls api_client.get(url), which is not in a cache.
CallGet ==
    /\ http.phase = "process"
    /\ http.gets = 0
    /\ http' = [http EXCEPT !.phase = "session", !.gets = @ + 1]
    /\ UNCHANGED <<generation_version_groups, target_gen, raw, out, chain,
                   evolution_chain, scraped, parser, cacheVars, runVars, threads,
                   projections>>

\* One HTTP attempt of self._session.get (api_client.py 112) and what the
\* adapter and raise_for_status (api_client.py 113) make of the answer.
Attempt ==
    /\ http.phase = "session"
    /\ LET attempts == http.attempts + 1
           status == StatusAt(http.server, attempts)
       IN  http' = [http EXCEPT
                       !.attempts = attempts,
                       !.status = status,
                       !.phase = IF is_retry(http.scheme, status)
                                    /\ ~exhausted(attempts, http.max_retries)
                                 THEN "session" ELSE "answered",
                       !.result = IF is_retry(http.scheme, status)
                                  THEN IF exhausted(attempts, http.max_retries)
                                       THEN "RetryError" ELSE "none"
                                  ELSE IF status = 200 THEN "payload"
                                  ELSE "HTTPError"]
    /\ UNCHANGED <<generation_version_groups, target_gen, raw, out, chain,
                   evolution_chain, scraped, parser, cacheVars, runVars, threads,
                   projections>>

\* get returns or raises into the process function, whose "except
\* Exception" turns the error into its error string; it does not call get
\* for the url again.
ProcessReturns ==
    /\ http.phase = "answered"
    /\ http' = [http EXCEPT !.phase = "returned"]
    /\ UNCHANGED <<generation_version_groups, target_gen, raw, out, chain,
                   evolution_chain, scraped, parser, cacheVars, runVars, threads,
                   projections>>

NextRetry == CallGet \/ Attempt \/ ProcessReturns

SpecRetry == InitRetry /\ [][NextRetry]_vars

AlwaysServerError == http.server.failing = 0 /\ http.server.status \in SERVER_ERROR_CODES

\* C13: one get call makes at most 1 + max_retries HTTP attempts; for a URL
\* that always answers with a server error the call fails once they are
\* used up; a 404 fails the call after exactly one attempt; and the process
\* function calls get for the URL once only.
C13_BoundedRetry ==
    /\ http.phase # "off" =>
          /\ http.attempts <= 1 + http.max_retries
          /\ http.gets <= 1
    /\ (http.phase \in {"answered", "returned"} /\ AlwaysServerError) =>
          /\ http.result \in {"RetryError", "HTTPError"}
          /\ http.attempts = IF http.scheme = "https" THEN 1 + http.max_retries ELSE 1
    /\ (http.phase \in {"answered", "returned"} /\ http.server.status = 404) =>
          /\ http.result = "HTTPError"
          /\ http.attempts = 1

C13_Witness ==
    /\ http.phase = "returned"
    /\ http.scheme = "https"
    /\ http.max_retries = MaxRetries
    /\ http.server = [failing |-> 0, status |-> 503]
    /\ http.attempts = MaxRetries + 1
    /\ http.result = "RetryError"

(***************************************************************************)
(* Order of the summary, checked under Spec.                               *)
(***************************************************************************)
NonDecreasing(xs) == \A i, j \in DOMAIN xs : i < j => xs[i].id <= xs[j].id

\* What the references contribute, taken in the order of the references
\* and not in the order of completion.
RECURSIVE ListInRefOrder(_)
ListInRefOrder(n) ==
    IF n = 0 THEN << >>
    ELSE ListInRefOrder(n - 1)
         \o (IF ResultKind(n) = "dict"
             THEN << Summary(future_map[n].output.result.name,
                             future_map[n].output.result.id) >>
             ELSE << >>)

RECURSIVE CategoryInRefOrder(_, _)
CategoryInRefOrder(k, n) ==
    IF n = 0 THEN << >>
    ELSE CategoryInRefOrder(k, n - 1)
         \o (IF ResultKind(n) = "categories" THEN future_map[n].output.summaries[k]
             ELSE << >>)

\* C14: the returned summary, the single list or each category list, is in
\* non-decreasing order of id and is a function of the references and of
\* what process returned for each of them only: it is the sorted list of
\* their contributions, whatever the order in which the workers completed.
C14_SortedDeterministic ==
    (runner.phase = "returned" /\ future_map # << >>) =>
        LET v == runner.returned[1]
        IN  /\ NonDecreasing(v.list)
            /\ NonDecreasing(v.pokemon)
            /\ NonDecreasing(v.variant)
            /\ v.list = SortById(ListInRefOrder(Len(future_map)))
            /\ v.pokemon = SortById(CategoryInRefOrder("pokemon", Len(future_map)))
            /\ v.variant = SortById(CategoryInRefOrder("variant", Len(future_map)))

C14_Witness ==
    /\ runner.phase = "returned"
    /\ runner.max_workers = 2
    /\ Len(all_references) >= 3
    /\ all_references[1] > all_references[2]
    /\ Len(runner.returned[1].list) = Len(all_references)
    /\ runner.returned[1].list[1].id < runner.returned[1].list[2].id

(***************************************************************************)
(* SpecDrain: the runner with an operator interrupt.  KeyboardInterrupt is *)
(* raised in the main thread inside the as_completed loop; leaving the     *)
(* "with ThreadPoolExecutor" block calls shutdown(wait=True), which does   *)
(* not cancel the queued futures: the workers go on taking them until the  *)
(* queue is empty, and only then main reaches "except KeyboardInterrupt"   *)
(* and sys.exit(130).                                                      *)
(***************************************************************************)
Interrupt ==
    /\ runner.phase = "pool"
    /\ runner' = [runner EXCEPT !.phase = "interrupted"]
    /\ UNCHANGED <<generation_version_groups, target_gen, raw, out, chain,
                   evolution_chain, scraped, parser, cacheVars, all_references,
                   future_map, summary_data, pokemon_summaries, errors, auxVars>>

\* __main__.py 333-335, once shutdown has joined the workers.
Exit ==
    /\ runner.phase = "interrupted"
    /\ \A i \in DOMAIN future_map : future_map[i].state \in {"finished", "collected"}
    /\ runner' = [runner EXCEPT !.phase = "exited"]
    /\ UNCHANGED <<generation_version_groups, target_gen, raw, out, chain,
                   evolution_chain, scraped, parser, cacheVars, all_references,
                   future_map, summary_data, pokemon_summaries, errors, auxVars>>

NextDrain == Next \/ Interrupt \/ Exit

SpecDrain == Init /\ [][NextDrain]_vars

\* C15 as stated: after an operator interrupt no reference whose processing
\* had not yet started is started.
C15_AsStated ==
    [][runner.phase = "interrupted" =>
          \A i \in DOMAIN future_map :
              future_map[i].state = "pending" => future_map'[i].state = "pending"]_vars

(***************************************************************************)
(* SpecLive: the runner under the scheduling the thread pool gives: a free *)
(* worker takes a queued task, a call of process returns, the main thread  *)
(* takes the next completed future and leaves the loop when none is left.  *)
(***************************************************************************)
SpecLive ==
    /\ Init
    /\ [][Next]_vars
    /\ WF_vars(\E i \in DOMAIN future_map : Start(i))
    /\ WF_vars(\E i \in DOMAIN future_map, data \in Resources : Finish(i, data))
    /\ WF_vars(\E i \in DOMAIN future_map : Collect(i))
    /\ WF_vars(Return)

\* C16: once the references are submitted, and as every call of process
\* returns, run eventually returns its summary, every submitted reference
\* having completed, for any number of references and a pool of one worker
\* or more.
C16_Terminates ==
    (runner.phase = "pool") ~>
        (/\ runner.phase = "returned"
         /\ runner.returned # None
         /\ \A i \in DOMAIN future_map : future_map[i].state = "collected")

C16_Witness ==
    /\ runner.phase = "returned"
    /\ runner.max_workers = 1
    /\ Len(all_references) = MaxRefs
    /\ \A i \in DOMAIN future_map : future_map[i].state = "collected"

(***************************************************************************)
(* SpecDet: the workers project the same raw record again and again, in    *)
(* any order with the projection of another entity.  A projection reads    *)
(* the raw record, the epoch index and the target and writes only its own  *)
(* cleaned_data.                                                           *)
(***************************************************************************)
MaxProjections == 3
OtherRecord == RawRecord("move", TRUE, Some(100), << >>)

process_record(data, gvg, tgt) ==
    IF data.kind = "move" THEN MoveParser_process(data, gvg, tgt)
    ELSE AbilityParser_process(data, gvg, tgt)

Project(entity) ==
    /\ raw # << >>
    /\ Len(projections) < MaxProjections
    /\ projections' =
          Append(projections,
                 [entity |-> entity,
                  output |-> process_record(IF entity = "this" THEN raw ELSE OtherRecord,
                                            generation_version_groups, target_gen)])
    /\ UNCHANGED <<generation_version_groups, target_gen, raw, out, chain,
                   evolution_chain, scraped, parser, cacheVars, runVars, http, threads>>

NextDet == \E entity \in {"this", "other"} : Project(entity)

SpecDet == InitProj /\ [][NextDet]_vars

IsLastCallOfClient(j) == j = Len(calls) /\ calls[j].proc = client.proc

\* C18: with file caching enabled and the url absent from memory, a cache
\* file younger than the TTL is returned without a network call and stored
\* in the memory map; with no file, or a file whose age is the TTL or more,
\* get goes to the network and on success rewrites the file and stores the
\* payload in memory.
C18_FileFreshness ==
    FileCaching =>
        \A j \in DOMAIN calls :
            ~AnsweredBeforeInProc(j) =>
                IF /\ FetchesBefore(j) # {}
                   /\ calls[j].t - calls[LastFetchBefore(j)].t < Ttl
                THEN /\ calls[j].source = "file"
                     /\ calls[j].data = calls[LastFetchBefore(j)].data
                     /\ IsLastCallOfClient(j) =>
                           /\ client.cache[calls[j].url] = calls[j].data[1]
                           /\ disk[calls[j].url].mtime = calls[LastFetchBefore(j)].t
                ELSE /\ HitNetwork(j)
                     /\ (calls[j].source = "network" /\ IsLastCallOfClient(j)) =>
                           /\ calls[j].data[1].fetched_at = calls[j].t
                           /\ client.cache[calls[j].url] = calls[j].data[1]
                           /\ disk[calls[j].url] =
                                 [mtime |-> calls[j].t, payload |-> calls[j].data[1]]

C18_Witness ==
    /\ FileCaching
    /\ Len(calls) = 2
    /\ calls[1].url = calls[2].url
    /\ calls[1].source = "network"
    /\ calls[2].proc # calls[1].proc
    /\ calls[2].t > calls[1].t
    /\ calls[2].source = "file"
    /\ calls[2].url \in DOMAIN client.cache

(***************************************************************************)
(* SpecConc: the worker threads of BaseParser.run share one ApiClient      *)
(* (base.py 131-135 submits self.process for every reference), and get     *)
(* takes no lock.  Each thread runs get statement by statement; the other  *)
(* threads run between any two statements.  The HTTP requests succeed.     *)
(* A cache file holds None between open(path, "w"), which truncates it,    *)
(* and the end of the with block, which flushes the dumped payload: a      *)
(* proper prefix of a JSON object does not decode.                         *)
(***************************************************************************)
MaxThreads == 2
MaxGets == 2

IdleThread == [pc |-> "idle", url |-> "", n |-> 0, warm |-> FALSE, path |-> FALSE,
               data |-> None]

\* The files of an earlier process, written at time 0.
EarlierFiles == [u \in Urls |-> [mtime |-> 0, payload |-> Some([url |-> u, fetched_at |-> 0])]]

InitConc ==
    /\ ProjIdle
    /\ RunIdle
    /\ EvoIdle
    /\ SpeciesIdle
    /\ HttpIdle
    /\ ProjectionsIdle
    /\ generation_version_groups = << >>
    /\ target_gen = 0
    /\ \E dir \in BOOLEAN, expires \in CacheExpiresOptions :
          client = ApiClient_init(1, dir, expires)
    /\ disk \in {<< >>, EarlierFiles}
    /\ now = 1
    /\ calls = << >>
    /\ threads = [i \in 1..MaxThreads |-> IdleThread]

\* The other threads that are inside the with block of lines 121-122 on the
\* cache file of url.
Writers(i, url) ==
    {j \in DOMAIN threads \ {i} : threads[j].pc = "writing" /\ threads[j].url = url}

\* get returns or raises in thread i: the call is logged and the worker
\* goes on to its next call.
Returned(i, source, data, overlap) ==
    /\ threads' = [threads EXCEPT ![i] = [@ EXCEPT !.pc = "idle", !.data = None]]
    /\ calls' = Append(calls, [url |-> threads[i].url, proc |-> i, t |-> now,
                               source |-> source, data |-> data,
                               warm |-> threads[i].warm, overlap |-> overlap])

\* A worker calls self.api_client.get(url).
Call(i, url) ==
    /\ threads[i].pc = "idle"
    /\ threads[i].n < MaxGets
    /\ threads' = [threads EXCEPT ![i] =
                      [pc |-> "memory", url |-> url, n |-> @.n + 1,
                       warm |-> url \in DOMAIN client.cache, path |-> FALSE,
                       data |-> None]]
    /\ UNCHANGED <<client, disk, now, calls, restVars, runVars, http, projections>>

\* api_client.py 88-90.
CheckMemory(i) ==
    /\ threads[i].pc = "memory"
    /\ IF threads[i].url \in DOMAIN client.cache
       THEN Returned(i, "memory", Some(client.cache[threads[i].url]), FALSE)
       ELSE /\ threads' = [threads EXCEPT ![i].pc = "file"]
            /\ UNCHANGED calls
    /\ UNCHANGED <<client, disk, now, restVars, runVars, http, projections>>

\* api_client.py 93-101 and 108: the path, exists(), stat() and the age.
CheckFile(i) ==
    /\ threads[i].pc = "file"
    /\ threads' = [threads EXCEPT
                      ![i].path = client.cache_dir /\ client.cache_expires # None,
                      ![i].pc = IF FileHit(client, disk, threads[i].url, now)
                                THEN "read" ELSE "fetch"]
    /\ UNCHANGED <<client, disk, now, calls, restVars, runVars, http, projections>>

\* api_client.py 103-106: json.load raises JSONDecodeError on a truncated
\* file, before the memory map is touched.
ReadFile(i) ==
    /\ threads[i].pc = "read"
    /\ LET url == threads[i].url
           overlap == Writers(i, url) # {}
       IN  IF disk[url].payload = None
           THEN /\ Returned(i, "torn", None, overlap)
                /\ UNCHANGED client
           ELSE /\ Returned(i, "file", disk[url].payload, overlap)
                /\ client' = [client EXCEPT !.cache = Put(@, url, disk[url].payload[1])]
    /\ UNCHANGED <<disk, now, restVars, runVars, http, projections>>

\* api_client.py 112-117 and, with no cache file, 120 and 124.
Fetch(i) ==
    /\ threads[i].pc = "fetch"
    /\ LET url == threads[i].url
           data == [url |-> url, fetched_at |-> now]
       IN  /\ client' = [client EXCEPT !.cache = Put(@, url, data)]
           /\ IF threads[i].path
              THEN /\ threads' = [threads EXCEPT ![i].pc = "open", ![i].data = Some(data)]
                   /\ UNCHANGED calls
              ELSE Returned(i, "network", Some(data), FALSE)
    /\ UNCHANGED <<disk, now, restVars, runVars, http, projections>>

\* api_client.py 121: open(cache_file_path, "w").
OpenFile(i) ==
    /\ threads[i].pc = "open"
    /\ disk' = Put(disk, threads[i].url, [mtime |-> now, payload |-> None])
    /\ threads' = [threads EXCEPT ![i].pc = "writing"]
    /\ UNCHANGED <<client, now, calls, restVars, runVars, http, projections>>

\* api_client.py 122-124: json.dump, the end of the with block, return.
CloseFile(i) ==
    /\ threads[i].pc = "writing"
    /\ disk' = Put(disk, threads[i].url, [mtime |-> now, payload |-> threads[i].data])
    /\ Returned(i, "network", threads[i].data, FALSE)
    /\ UNCHANGED <<client, now, restVars, runVars, http, projections>>

NextConc ==
    \E i \in 1..MaxThreads :
        \/ \E url \in Urls : Call(i, url)
        \/ CheckMemory(i)
        \/ CheckFile(i)
        \/ ReadFile(i)
        \/ Fetch(i)
        \/ OpenFile(i)
        \/ CloseFile(i)

SpecConc == InitConc /\ [][NextConc]_vars

(***************************************************************************)
(* Claims about concurrent calls of get, checked under SpecConc.           *)
(***************************************************************************)
CallsOf(url) == {j \in DOMAIN calls : calls[j].url = url}
\* The network fetches of url: those of the calls that have returned and
\* those of the threads that are between the fetch and the return.
NetworkFetches(url) ==
    Cardinality({j \in CallsOf(url) : calls[j].source = "network"})
    + Cardinality({i \in DOMAIN threads : /\ threads[i].url = url
                                          /\ threads[i].pc \in {"open", "writing"}})

\* C19 as stated: whatever the interleaving, every call of get returns a
\* payload fetched for its url, the calls of one url make at most as many
\* network fetches as there are workers and at least one when no cache file
\* answered, a url whose call has returned is in the memory map, and a call
\* made when the url is in the memory map is answered from memory.
C19_AsStated ==
    /\ \A j \in DOMAIN calls :
          /\ calls[j].data # None
          /\ calls[j].data[1].url = calls[j].url
          /\ calls[j].url \in DOMAIN client.cache
          /\ calls[j].warm => calls[j].source = "memory"
    /\ \A url \in Urls :
          /\ NetworkFetches(url) <= MaxThreads
          /\ (CallsOf(url) # {} /\ \A j \in CallsOf(url) : calls[j].source # "file")
                => NetworkFetches(url) >= 1

\* C20 as stated: no two workers are inside the write of the same cache
\* file at the same time, and no worker has read a cache file while another
\* worker was inside the write of it.
C20_AsStated ==
    /\ \A i \in DOMAIN threads :
          threads[i].pc = "writing" => Writers(i, threads[i].url) = {}
    /\ \A j \in DOMAIN calls : ~calls[j].overlap

(***************************************************************************)
(* The fixed-size pool, checked under Spec.                                *)
(***************************************************************************)
InProgress == Cardinality({i \in DOMAIN future_map : future_map[i].state = "running"})
StateOrder(state) ==
    CASE state = "pending" -> 0
      [] state = "running" -> 1
      [] state = "finished" -> 2
      [] state = "collected" -> 3

\* C21: at every moment at most max_workers calls of process are in
\* progress; a call that has started runs to its end and is never started
\* again (a future only moves pending -> running -> finished -> collected,
\* one step at a time); and the futures are the discovered references, one
\* future per reference.
C21_FixedPool ==
    /\ [](/\ InProgress <= runner.max_workers
          /\ runner.phase \in {"pool", "returned"} =>
                /\ Len(future_map) = Len(all_references)
                /\ \A i \in DOMAIN future_map : future_map[i].ref = all_references[i])
    /\ [][runner.phase = "pool" =>
             \A i \in DOMAIN future_map :
                /\ future_map'[i].ref = future_map[i].ref
                /\ StateOrder(future_map'[i].state) - StateOrder(future_map[i].state)
                      \in {0, 1}]_vars

C21_Witness ==
    /\ runner.phase = "pool"
    /\ runner.max_workers = 1
    /\ Len(all_references) >= 2
    /\ future_map[1].state = "finished"
    /\ future_map[2].state = "running"
    /\ \A i \in 3..Len(future_map) : future_map[i].state = "pending"

(***************************************************************************)
(* SpecReplay: the replay loop of _apply_past_values for one version group *)
(* of the target generation, one event per step.  projections is the       *)
(* history of temp_data: its first entry is the copy of the current values *)
(* (move.py 171-179), every later entry the event applied and temp_data    *)
(* after it.  When the loop ends the move is written as process writes it. *)
(***************************************************************************)
InitReplay ==
    /\ InitProj
    /\ raw.kind = "move"
    /\ raw.fetch_ok

ReplayMap == build_version_group_to_generation_map(generation_version_groups)
ReplayEvents == sorted_past_values(raw.past_values, ReplayMap, target_gen)
ReplayGroup == projections[1].version_group

\* The loop's next event exists and is not behind the break of line 206.
ReplayGoesOn ==
    /\ Len(projections) <= Len(ReplayEvents)
    /\ MapGet(ReplayMap, ReplayEvents[Len(projections)].version_group, UnknownGen)
          <= MapGet(ReplayMap, ReplayGroup, NoGen)

\* move.py 169-179: the loop over the version groups takes one and copies
\* the current values.
BeginVersionGroup(vg) ==
    /\ projections = << >>
    /\ ~out.done
    /\ projections' =
          << [version_group |-> vg, event |-> None,
              temp_data |-> [accuracy |-> raw.accuracy, power |-> raw.power,
                             pp |-> raw.pp, effect_chance |-> raw.effect_chance,
                             type |-> raw.type,
                             effect |-> get_english_entry(raw.effect_entries, "effect"),
                             short_effect |->
                                 get_english_entry(raw.effect_entries, "short_effect")]] >>
    /\ UNCHANGED <<generation_version_groups, target_gen, raw, out, chain,
                   evolution_chain, scraped, parser, cacheVars, runVars, http, threads>>

\* move.py 197-228: one pass of the loop.
ApplyPastValue ==
    /\ projections # << >>
    /\ ~out.done
    /\ ReplayGoesOn
    /\ LET past_value == ReplayEvents[Len(projections)]
           temp_data == projections[Len(projections)].temp_data
       IN  projections' =
              Append(projections,
                     [version_group |-> ReplayGroup, event |-> Some(past_value),
                      temp_data |-> apply_past_value(temp_data, past_value)])
    /\ UNCHANGED <<generation_version_groups, target_gen, raw, out, chain,
                   evolution_chain, scraped, parser, cacheVars, runVars, http, threads>>

\* The loop is over; move.py 230-236 and the rest of process.
EndReplay ==
    /\ projections # << >>
    /\ ~out.done
    /\ ~ReplayGoesOn
    /\ LET r == MoveParser_process(raw, generation_version_groups, target_gen)
       IN  out' = [done |-> TRUE, result |-> r.result, file |-> r.file]
    /\ UNCHANGED <<generation_version_groups, target_gen, raw, chain, evolution_chain,
                   scraped, parser, cacheVars, runVars, auxVars>>

NextReplay ==
    \/ \E vg \in Range(DictGet(generation_version_groups, target_gen)) :
          BeginVersionGroup(vg)
    \/ ApplyPastValue
    \/ EndReplay

SpecReplay == InitReplay /\ [][NextReplay]_vars

(***************************************************************************)
(* Claims about the replay, checked under SpecReplay.                      *)
(***************************************************************************)
\* The event carries a non-null value for the field; effect and
\* short_effect travel in effect_entries.
Carries(past_value, f) ==
    IF f \in {"effect", "short_effect"} THEN past_value.effect_entries # << >>
    ELSE past_value[f] # None

\* C22: applying one override event leaves every field for which the event
\* carries no value as it was before that event: the current value, or the
\* value an earlier event set.
C22_FrameOfEvent ==
    \A k \in 2..Len(projections) :
        \A f \in ChangeFields :
            ~Carries(projections[k].event[1], f) =>
                projections[k].temp_data[f] = projections[k - 1].temp_data[f]

C22_Witness ==
    /\ Len(projections) = 3
    /\ projections[1].temp_data.power = Some(100)
    /\ projections[2].event[1].power = Some(40)
    /\ projections[3].event[1].power = None
    /\ projections[3].event[1].accuracy = Some(90)
    /\ projections[3].temp_data.power = Some(40)
    /\ projections[3].temp_data.accuracy = Some(90)
    /\ projections[3].temp_data.pp = projections[1].temp_data.pp

\* The epoch of a version group by the inverse of the epoch index: the
\* generation whose list holds it; 0 when no known generation holds it.
EpochOf(vg) ==
    IF \E i \in DOMAIN generation_version_groups :
          vg \in Range(generation_version_groups[i].vgs)
    THEN generation_version_groups[
             CHOOSE i \in DOMAIN generation_version_groups :
                 vg \in Range(generation_version_groups[i].vgs)].gen
    ELSE 0

\* The positions of the override array that are due, and their rank by
\* epoch with ties in array order.
Due == {i \in DOMAIN raw.past_values :
           /\ EpochOf(raw.past_values[i].version_group) # 0
           /\ EpochOf(raw.past_values[i].version_group) <= target_gen}
DueRank(i) ==
    1 + Cardinality({j \in Due :
          \/ EpochOf(raw.past_values[j].version_group)
                < EpochOf(raw.past_values[i].version_group)
          \/ /\ EpochOf(raw.past_values[j].version_group)
                   = EpochOf(raw.past_values[i].version_group)
             /\ j < i})
DueInOrder ==
    [k \in 1..Cardinality(Due) |->
        raw.past_values[CHOOSE i \in Due : DueRank(i) = k]]

\* The value of the last event of a list that sets the numeric field f,
\* else the current value.
LastSetter(events, f, current) ==
    IF \E k \in DOMAIN events : events[k][f] # None
    THEN events[CHOOSE k \in DOMAIN events :
                    /\ events[k][f] # None
                    /\ \A j \in DOMAIN events : events[j][f] # None => j <= k][f]
    ELSE current

\* C23: when the replay of a version group is over, the events applied are
\* exactly the overrides whose version group is in a known epoch at most
\* the target, by epoch ascending with ties in array order, and the value
\* written for the version group is that of the last applied event that
\* sets the field.
C23_ReplayedEvents ==
    (out.done /\ projections # << >>) =>
        /\ [k \in 1..(Len(projections) - 1) |-> projections[k + 1].event[1]] = DueInOrder
        /\ \A f \in {"accuracy", "power", "pp", "effect_chance"} :
              WrittenData[f].val[ReplayGroup] = LastSetter(DueInOrder, f, raw[f])

C23_Witness ==
    /\ out.done
    /\ target_gen = 3
    /\ raw.power = Some(100)
    /\ raw.past_values = <<Event("vgD", None, Some(60), None, NoEntries),
                           Event("vgA", None, Some(40), None, NoEntries)>>
    /\ Len(projections) = 3
    /\ projections[2].event[1].version_group = "vgA"
    /\ projections[3].event[1].version_group = "vgD"
    /\ WrittenData.power.val["vgD"] = Some(60)

\* C27: every version group of the target epoch gets the same value for
\* each field, whatever the override list (in the epoch indexes at hand
\* every version group belongs to exactly one epoch).
C27_Uniform ==
    /\ MoveDone => \A f \in ChangeFields : FieldUniform(WrittenData[f])
    /\ AbilityDone => FieldUniform(WrittenData.effect)

C27_Witness ==
    /\ MoveDone
    /\ TargetVgs = {"vgB", "vgC"}
    /\ raw.past_values = <<Event("vgB", None, None, None, OldEntries),
                           Event("vgA", Some(90), None, Some("normal"), NoEntries)>>
    /\ WrittenData.effect.val["vgB"] = Some("old effect")
    /\ WrittenData.effect.val["vgC"] = Some("old effect")
    /\ WrittenData.type.val["vgC"] = Some("normal")

(***************************************************************************)
(* Pruned subtrees, checked under SpecEvo.                                 *)
(***************************************************************************)
\* The node of the resolved tree that stands for species i.
RECURSIVE SubtreeOf(_, _)
SubtreeOf(tree, i) ==
    IF tree.species_name = i THEN Some(tree)
    ELSE LET found == {k \in DOMAIN tree.evolves_to :
                          SubtreeOf(tree.evolves_to[k], i) # None}
         IN  IF found = {} THEN None
             ELSE SubtreeOf(tree.evolves_to[CHOOSE k \in found : TRUE], i)

\* A pruned child: its parent is in the result and its own generation is
\* above the target.
Pruned(i) == chain.parent[i] \in ResolvedNodes /\ chain.gen[i] > target_gen

\* C24: a child whose generation exceeds the target is dropped with its
\* whole subtree, descendants of a generation at most the target included,
\* and the children of a kept node that are not of a later generation all
\* appear under it, in array order.
C24_SubtreeDropped ==
    Resolved =>
        /\ \A i \in 2..chain.n :
              Pruned(i) =>
                 \A d \in 2..chain.n :
                    i \in PathBelowRoot(chain, d) => d \notin ResolvedNodes
        /\ \A p \in ResolvedNodes :
              LET node == SubtreeOf(evolution_chain.tree[1], p)[1]
              IN  [k \in DOMAIN node.evolves_to |-> node.evolves_to[k].species_name]
                    = SelectSeq(evolves_to_of(chain, p),
                                LAMBDA i : chain.gen[i] <= target_gen)

C24_Witness ==
    /\ Resolved
    /\ target_gen = 4
    /\ chain.n = 3
    /\ chain.gen[1] = 1
    /\ chain.parent[2] = 1
    /\ chain.gen[2] = 5
    /\ chain.parent[3] = 2
    /\ chain.gen[3] = 4
    /\ Pruned(2)
    /\ 3 \notin ResolvedNodes
    /\ evolution_chain.tree[1].evolves_to = << >>

(***************************************************************************)
(* scrape_pokemon_changes.  A list item of the change log is what the      *)
(* rules and the extractors look at: whether it has an <abbr>, the         *)
(* generations of the abbr, the rule patterns that occur in its text, its  *)
(* ability link, its type links, and the number after "of".                *)
(***************************************************************************)
MAX_RETRIES == 3
MaxItems == 2

\* The patterns of the rule table (scraper.py 121-135), in table order.
rules ==
    << "ability", "type", "base experience yield", "base Friendship value",
       "catch rate", "EVs", "base Special stat", "base HP", "base Attack",
       "base Defense", "base Special Attack", "base Special Defense", "base Speed" >>

NoChange == Change(None, None, None, None)

\* The stat a "base ..." rule names (scraper.py 129-134).
StatOfRule ==
    [r \in {"base HP", "base Attack", "base Defense", "base Special Attack",
            "base Special Defense", "base Speed"} |->
        CASE r = "base HP" -> "hp"
          [] r = "base Attack" -> "attack"
          [] r = "base Defense" -> "defense"
          [] r = "base Special Attack" -> "special-attack"
          [] r = "base Special Defense" -> "special-defense"
          [] r = "base Speed" -> "speed"]

\* The extractor of rule r on a list item (scraper.py 171-264): the change
\* dict, or None when what it looks for is not there.
handler(r, li) ==
    CASE rules[r] = "ability" ->
            IF li.ability_link # None
            THEN Some([NoChange EXCEPT !.ability = li.ability_link]) ELSE None
      [] rules[r] = "type" ->
            IF li.type_links # << >>
            THEN Some([NoChange EXCEPT !.types = Some(li.type_links)]) ELSE None
      [] rules[r] = "base experience yield" ->
            IF li.number # None
            THEN Some([NoChange EXCEPT !.base_experience = li.number]) ELSE None
      [] rules[r] = "base Friendship value" ->
            IF li.number # None
            THEN Some([NoChange EXCEPT !.base_happiness = li.number]) ELSE None
      [] rules[r] = "catch rate" ->
            IF li.number # None
            THEN Some([NoChange EXCEPT !.capture_rate = li.number]) ELSE None
      [] rules[r] = "EVs" ->
            IF li.ev # None
            THEN Some([NoChange EXCEPT !.ev_yield = Some(<<li.ev[1]>>)]) ELSE None
      [] rules[r] = "base Special stat" ->
            IF li.special # None
            THEN Some([NoChange EXCEPT !.stats =
                          Some([k \in {"special-attack", "special-defense"} |->
                                   li.special[1]])])
            ELSE None
      [] OTHER ->
            IF li.number # None
            THEN Some([NoChange EXCEPT !.stats =
                          Some([k \in {StatOfRule[rules[r]]} |-> li.number[1]])])
            ELSE None

\* The rule loop without its break: every rule whose pattern occurs is
\* applied and every change found is kept.
RECURSIVE apply_rules_no_break(_, _)
apply_rules_no_break(li, r) ==
    IF r > Len(rules) THEN [handled |-> << >>, changes |-> << >>]
    ELSE IF rules[r] \notin li.text THEN apply_rules_no_break(li, r + 1)
    ELSE LET change == handler(r, li)
             rest == apply_rules_no_break(li, r + 1)
         IN  [handled |-> <<r>> \o rest.handled,
              changes |-> (IF change # None
                           THEN <<[generations |-> li.generations, change |-> change[1]]>>
                           ELSE << >>) \o rest.changes]

\* The rule loop of scraper.py 150-157 from rule r on: the rules whose
\* extractor is called, and the changes appended.  The break is inside
\* "if change", so a rule that extracts nothing is passed over.
RECURSIVE apply_rules(_, _)
apply_rules(li, r) ==
    IF r > Len(rules) THEN [handled |-> << >>, changes |-> << >>]
    ELSE IF rules[r] \notin li.text THEN apply_rules(li, r + 1)
    ELSE LET change == handler(r, li)
         IN  IF change # None
             THEN [handled |-> <<r>>,
                   changes |-> <<[generations |-> li.generations, change |-> change[1]]>>]
             ELSE LET rest == apply_rules(li, r + 1)
                  IN  [handled |-> <<r>> \o rest.handled, changes |-> rest.changes]

\* scraper.py 138-157 for one list item.
scrape_item(li) ==
    IF ~li.has_abbr \/ li.generations = {}
    THEN [handled |-> << >>, changes |-> << >>]
    ELSE apply_rules(li, 1)

\* "has N <stat> EV" gives ev; "base Special stat of N" gives special; any
\* "of N" gives number.
ListItem(has_abbr, generations, text, ability_link, type_links, number) ==
    [has_abbr |-> has_abbr, generations |-> generations, text |-> text,
     ability_link |-> ability_link, type_links |-> type_links, number |-> number,
     ev |-> IF "EVs" \in text THEN Some("attack") ELSE None,
     special |-> IF "base Special stat" \in text THEN number ELSE None]

ItemCatalogue ==
    { ListItem(TRUE, {2, 3}, {"ability"}, Some("static"), << >>, None),
      ListItem(TRUE, {1}, {"type"}, None, <<"normal">>, None),
      ListItem(TRUE, {3}, {"catch rate"}, None, << >>, Some(45)),
      ListItem(TRUE, {1, 2, 3}, {"ability", "base Attack"}, None, << >>, Some(50)),
      ListItem(TRUE, {2}, {"ability", "type"}, Some("static"), <<"normal">>, None),
      ListItem(FALSE, {}, {"type"}, None, <<"normal">>, None),
      ListItem(TRUE, {1}, {"base Special stat"}, None, << >>, Some(65)),
      ListItem(TRUE, {1}, {}, None, << >>, Some(7)) }

\* The page: with or without a changes section, and the section's items.
Pages ==
    {[has_section |-> FALSE, items |-> << >>]}
    \cup {[has_section |-> TRUE, items |-> l] : l \in SeqsUpTo(ItemCatalogue, MaxItems)}

PageUrl == "page"
EmptyOutput == [metadata |-> PageUrl, changes |-> << >>]
Output(all_changes) == [metadata |-> PageUrl, changes |-> all_changes]

\* A parser that was given the scraper.
ScrapingParser ==
    [built |-> TRUE, is_historical |-> TRUE, scraper_func |-> Some("scrape_pokemon_changes")]

(***************************************************************************)
(* SpecScrape: _apply_historical_changes calls scrape_pokemon_changes for  *)
(* one species.  http.failing is the number of page requests that fail     *)
(* before one succeeds; http.cache tells whether there is no cache file    *)
(* path ("off"), a path without a fresh file ("miss") or a fresh file      *)
(* ("hit").  scraped is all_changes.                                       *)
(***************************************************************************)
InitScrape ==
    /\ ProjectionsIdle
    /\ ThreadsIdle
    /\ EvoIdle
    /\ RunIdle
    /\ generation_version_groups = << >>
    /\ target_gen \in 1..3
    /\ raw = [latest_gen_num |-> 4, pokemon |-> PokemonRecord]
    /\ parser = ScrapingParser
    /\ out = NotProcessed
    /\ scraped = << >>
    /\ client = NoClient
    /\ now = 0
    /\ calls = << >>
    /\ \E cache \in {"off", "miss", "hit"}, failing \in 0..(MAX_RETRIES + 1), page \in Pages :
          /\ http = [phase |-> "cache", cache |-> cache, failing |-> failing,
                     page |-> page, attempts |-> 0, item |-> 1, handled |-> << >>,
                     returned |-> None]
          /\ disk = IF cache = "hit"
                    THEN [u \in {PageUrl} |-> [mtime |-> 0, payload |-> EmptyOutput]]
                    ELSE << >>

\* scraper.py 40-58.
CheckScraperCache ==
    /\ http.phase = "cache"
    /\ http' = IF http.cache = "hit"
               THEN [http EXCEPT !.phase = "returned",
                                 !.returned = Some(disk[PageUrl].payload)]
               ELSE [http EXCEPT !.phase = "fetch"]
    /\ UNCHANGED <<generation_version_groups, target_gen, raw, out, chain,
                   evolution_chain, scraped, parser, cacheVars, runVars, threads,
                   projections>>

\* The test of scraper.py 74 with one attempt more.
retrying_late(attempt) == attempt < MAX_RETRIES

\* scraper.py 74: a failed attempt is followed by another one.
retrying(attempt) == attempt < MAX_RETRIES - 1

\* One pass of the retry loop (scraper.py 64-83); with a page that has no
\* changes section, scraper.py 99-119 too.
PageRequest ==
    /\ http.phase = "fetch"
    /\ LET attempt == http.attempts
           ok == attempt >= http.failing
       IN  IF ok
           THEN IF http.page.has_section
                THEN /\ http' = [http EXCEPT !.attempts = @ + 1, !.phase = "parse"]
                     /\ UNCHANGED disk
                ELSE /\ http' = [http EXCEPT !.attempts = @ + 1, !.phase = "returned",
                                             !.returned = Some(EmptyOutput)]
                     /\ disk' = IF http.cache = "off" THEN disk
                                ELSE Put(disk, PageUrl,
                                         [mtime |-> now, payload |-> EmptyOutput])
           ELSE /\ http' = IF retrying(attempt)
                           THEN [http EXCEPT !.attempts = @ + 1]
                           ELSE [http EXCEPT !.attempts = @ + 1, !.phase = "returned",
                                             !.returned = Some(<< >>)]
                /\ UNCHANGED disk
    /\ UNCHANGED <<generation_version_groups, target_gen, raw, out, chain,
                   evolution_chain, scraped, parser, client, now, calls, runVars,
                   threads, projections>>

\* One pass of the loop over the list items (scraper.py 137-157).
ParseItem ==
    /\ http.phase = "parse"
    /\ http.item <= Len(http.page.items)
    /\ LET r == scrape_item(http.page.items[http.item])
       IN  /\ scraped' = scraped \o r.changes
           /\ http' = [http EXCEPT !.item = @ + 1,
                                   !.handled = Append(@, r.handled)]
    /\ UNCHANGED <<generation_version_groups, target_gen, raw, out, chain,
                   evolution_chain, parser, cacheVars, runVars, threads, projections>>

\* scraper.py 161-168.
WriteOutput ==
    /\ http.phase = "parse"
    /\ http.item > Len(http.page.items)
    /\ http' = [http EXCEPT !.phase = "returned", !.returned = Some(Output(scraped))]
    /\ disk' = IF http.cache = "off" THEN disk
               ELSE Put(disk, PageUrl, [mtime |-> now, payload |-> Output(scraped)])
    /\ UNCHANGED <<generation_version_groups, target_gen, raw, out, chain,
                   evolution_chain, scraped, parser, client, now, calls, runVars,
                   threads, projections>>

\* scraper_data.get("changes", []) on what the scraper returned.
changes_of(scraper_data) ==
    IF scraper_data = << >> THEN << >> ELSE scraper_data.changes

\* The scraper has returned into _apply_historical_changes (pokemon.py
\* 77-116) and the default pokemon is written (pokemon.py 513-527).
ApplyScraped ==
    /\ http.phase = "returned"
    /\ ~out.done
    /\ LET r == _process_default_pokemon(parser, raw.pokemon,
                                         changes_of(http.returned[1]), target_gen)
       IN  out' = [done |-> TRUE, result |-> r.result, file |-> r.file]
    /\ UNCHANGED <<generation_version_groups, target_gen, raw, chain,
                   evolution_chain, scraped, parser, cacheVars, runVars, auxVars>>

NextScrape ==
    \/ CheckScraperCache
    \/ PageRequest
    \/ ParseItem
    \/ WriteOutput
    \/ ApplyScraped

SpecScrape == InitScrape /\ [][NextScrape]_vars

(***************************************************************************)
(* Claims about the scraper, checked under SpecScrape.                     *)
(***************************************************************************)
Scraping == http.phase \in {"cache", "fetch", "parse", "returned"}
ParsedItems == 1..Len(http.handled)
Matching(li) == {r \in DOMAIN rules : rules[r] \in li.text}
FirstMatching(li) == CHOOSE r \in Matching(li) : \A q \in Matching(li) : r <= q
Read(li) == li.has_abbr /\ li.generations # {}

\* C25 as stated: for each list item the first rule whose pattern occurs in
\* the text is the only rule whose extractor is applied.
C25_AsStated ==
    Scraping =>
        \A k \in ParsedItems :
            LET li == http.page.items[k]
            IN  (Read(li) /\ Matching(li) # {}) =>
                    http.handled[k] = <<FirstMatching(li)>>

\* C25 amended: the extractors applied to a list item are those of the
\* rules whose pattern occurs in the text, in table order, up to and
\* including the first one that extracts a change; a rule whose extractor
\* finds nothing is passed over and the next matching rule is tried.  Each
\* list item yields at most one change, that of the last extractor applied.
C25_FirstExtractingRule ==
    Scraping =>
        /\ \A k \in ParsedItems :
              LET li == http.page.items[k]
                  h == http.handled[k]
              IN  /\ ~Read(li) => h = << >>
                  /\ \A i \in DOMAIN h :
                        /\ h[i] \in Matching(li)
                        /\ i < Len(h) => /\ h[i] < h[i + 1]
                                         /\ handler(h[i], li) = None
                        /\ \A r \in Matching(li) :
                              (r < h[i] /\ Read(li)) => \E j \in 1..i : h[j] = r
                  /\ Read(li) =>
                        \/ h # << >> /\ handler(h[Len(h)], li) # None
                        \/ \A r \in Matching(li) :
                              /\ handler(r, li) = None
                              /\ \E j \in DOMAIN h : h[j] = r
        /\ Len(scraped) =
              Cardinality({i \in ParsedItems :
                              /\ http.handled[i] # << >>
                              /\ handler(http.handled[i][Len(http.handled[i])],
                                         http.page.items[i]) # None})

C25_Witness ==
    /\ http.phase = "returned"
    /\ Len(http.page.items) = 2
    /\ http.page.items[1] =
          ListItem(TRUE, {1, 2, 3}, {"ability", "base Attack"}, None, << >>, Some(50))
    /\ http.page.items[2] =
          ListItem(TRUE, {2}, {"ability", "type"}, Some("static"), <<"normal">>, None)
    /\ http.handled = << <<1, 9>>, <<1>> >>
    /\ Len(scraped) = 2
    /\ scraped[1].change.stats = Some([attack |-> 50])
    /\ scraped[2].change.ability = Some("static")

\* C29: on a cache miss the scraper makes at most MAX_RETRIES page
\* requests and none after the first that succeeds; when all of them fail
\* it returns the empty dict, raises nothing and writes no cache file, and
\* the species record is then written from the primary-source data alone.
C29_FetchFailureContained ==
    (Scraping /\ http.cache # "hit") =>
        /\ http.attempts <= MAX_RETRIES
        /\ http.attempts <= http.failing + 1
        /\ (http.phase = "returned" /\ http.failing >= MAX_RETRIES) =>
              /\ http.attempts = MAX_RETRIES
              /\ http.returned = Some(<< >>)
              /\ disk = << >>
              /\ out.done => /\ out.result.kind = "dict"
                             /\ out.file[1].data = raw.pokemon

C29_Witness ==
    /\ http.phase = "returned"
    /\ http.cache = "miss"
    /\ http.failing = MAX_RETRIES
    /\ http.attempts = MAX_RETRIES
    /\ http.returned = Some(<< >>)
    /\ disk = << >>
    /\ out.done
    /\ out.file[1].data = PokemonRecord

(***************************************************************************)
(* SpecRaw: raw records and the records derived from them.  get returns    *)
(* the very object the memory map holds, so a write made in place through  *)
(* a derived record reaches the memory map exactly when the field written  *)
(* is that object's own.  A derived record is its data and the set of its  *)
(* fields that are objects of the payload it was built from.               *)
(***************************************************************************)
MaxProcess == 2

PokemonUrl == "pokemon/35"
FormUrl == "pokemon-form/10035"

\* What the API answers.
ApiPayload ==
    [u \in {PokemonUrl, FormUrl} |->
        IF u = PokemonUrl
        THEN [sprites |-> [front_default |-> "clefairy.png"],
              cries |-> [latest |-> "35.ogg"]] @@ PokemonRecord
        ELSE [name |-> "clefairy-sparkle", is_default |-> FALSE,
              sprites |-> [front_default |-> "sparkle.png"]]]

\* ApiClient.get with the memory map only (api_client.py 88-90, 112-117 and
\* 124): the object returned is the one in the map.
ApiClient_get_object(self, url) ==
    IF url \in DOMAIN self.cache
    THEN [client |-> self, source |-> "memory"]
    ELSE [client |-> [self EXCEPT !.cache = Put(@, url, ApiPayload[url])],
          source |-> "network"]

\* A template that takes the payload's own stats, abilities and sprites
\* objects instead of building new ones.
SharedFields_all == {"cries", "stats", "abilities", "sprites"}

\* _build_base_pokemon_data (pokemon.py 328-346): types, abilities, stats,
\* ev_yield and sprites are built anew by comprehensions; cries is the
\* payload's own dict.
SharedFields == {"cries"}

\* The fields _apply_historical_changes writes in place (pokemon.py 96 and
\* 102); the others it rebinds.
InPlaceFields == {"abilities", "stats"}

_build_base_pokemon_data(pokemon_data) ==
    [data |-> pokemon_data, shared |-> SharedFields]

\* A write in place to field f of a derived record: the payload object is
\* written too when the field is shared.
WriteThrough(payload, derived, fields) ==
    [f \in DOMAIN payload |->
        IF f \in fields \cap derived.shared THEN derived.data[f] ELSE payload[f]]

\* _process_default_pokemon on the heap (pokemon.py 513-527).
default_on_heap(self, payload, log, tgt) ==
    LET built == _build_base_pokemon_data(payload)
        changed == IF self.is_historical
                   THEN _apply_historical_changes(self, built.data, log, tgt)
                   ELSE built.data
        default_template == [data |-> changed, shared |-> built.shared]
    IN  [template |-> default_template,
         payload |-> WriteThrough(payload, default_template, InPlaceFields)]

\* copy.deepcopy: no object of the copy is shared.
deepcopy(derived) == [data |-> derived.data, shared |-> {}]

\* _process_cosmetic_form (pokemon.py 591-634) after the skip tests.
cosmetic_on_heap(form_data, default_template) ==
    LET copied == deepcopy(default_template)
        cosmetic_data ==
            [copied EXCEPT
                !.data = [@ EXCEPT !.name = form_data.name,
                                   !.sprites = [@ EXCEPT !.front_default =
                                                   form_data.sprites.front_default]]]
    IN  cosmetic_data

InitRaw ==
    /\ AuxIdle
    /\ EvoIdle
    /\ RunIdle
    /\ generation_version_groups = << >>
    /\ target_gen \in 1..3
    /\ raw = [latest_gen_num |-> 4, pokemon |-> PokemonRecord]
    /\ parser \in {ScrapingParser, PokemonParser_init(TRUE), PokemonParser_init(FALSE)}
    /\ scraped \in ScrapedLists
    /\ out = NotProcessed
    /\ client = ApiClient_init(1, FALSE, None)
    /\ disk = << >>
    /\ now = 0
    /\ calls = << >>

\* PokemonParser.process for the species: the default pokemon and its
\* cosmetic form.
ProcessPokemon ==
    /\ client.proc > 0
    /\ Len(calls) < 2 * MaxProcess
    /\ LET g1 == ApiClient_get_object(client, PokemonUrl)
           g2 == ApiClient_get_object(g1.client, FormUrl)
           d == default_on_heap(parser, g2.client.cache[PokemonUrl], scraped, target_gen)
           after == [g2.client EXCEPT !.cache = Put(@, PokemonUrl, d.payload)]
           cosmetic_data == cosmetic_on_heap(after.cache[FormUrl], d.template)
       IN  /\ client' = after
           /\ calls' = calls \o
                 << [url |-> PokemonUrl, proc |-> client.proc, t |-> now,
                     source |-> g1.source, data |-> Some(ApiPayload[PokemonUrl])],
                    [url |-> FormUrl, proc |-> client.proc, t |-> now,
                     source |-> g2.source, data |-> Some(ApiPayload[FormUrl])] >>
           /\ out' = [done |-> TRUE,
                      result |-> DictResult(d.template.data.name, d.template.data.id),
                      file |-> Some(write_json_file("pokemon", d.template.data.name,
                                                    d.template.data)),
                      cosmetic |-> Some(write_json_file("cosmetic",
                                                        cosmetic_data.data.name,
                                                        cosmetic_data.data))]
    /\ UNCHANGED <<generation_version_groups, target_gen, raw, chain, evolution_chain,
                   scraped, parser, disk, now, runVars, auxVars>>

NextRaw == ProcessPokemon

SpecRaw == InitRaw /\ [][NextRaw]_vars

\* C26: after any sequence of process calls every payload in the memory
\* map is equal to the payload that was fetched for its URL.
C26_RawReadOnly ==
    (client.proc > 0 /\ out.done /\ "cosmetic" \in DOMAIN out) =>
        \A j \in DOMAIN calls :
            /\ calls[j].url \in DOMAIN client.cache
            /\ client.cache[calls[j].url] = calls[j].data[1]

C26_Witness ==
    /\ out.done
    /\ "cosmetic" \in DOMAIN out
    /\ Len(calls) = 4
    /\ calls[3].source = "memory"
    /\ target_gen = 1
    /\ parser.scraper_func # None
    /\ out.file[1].data.stats # PokemonRecord.stats
    /\ out.cosmetic[1].data.sprites.front_default = "sparkle.png"
    /\ client.cache[PokemonUrl].stats = PokemonRecord.stats
    /\ client.cache[PokemonUrl].sprites.front_default = "clefairy.png"

(***************************************************************************)
(* Failed fetches, checked under SpecCache.                                *)
(***************************************************************************)
\* The step is a call of get that failed at the fetch or the decoding.
FailedGet ==
    /\ Len(calls') = Len(calls) + 1
    /\ calls'[Len(calls')].source = "error"

\* C28: a get that fails at the fetch or the JSON decoding leaves the
\* memory map and the cache files as they were, for its url and for every
\* other, and the next get of the url goes to the network again.
C28_NoNegativeCaching ==
    /\ [][FailedGet => (client' = client /\ disk' = disk)]_vars
    /\ [](client.proc > 0 =>
            \A j \in DOMAIN calls :
               (/\ calls[j].source = "error"
                /\ j + 1 \in DOMAIN calls
                /\ calls[j + 1].url = calls[j].url) => HitNetwork(j + 1))

C28_Witness ==
    /\ Len(calls) = 3
    /\ calls[1].url # calls[2].url
    /\ calls[1].source = "network"
    /\ calls[2].source = "error"
    /\ calls[3].url = calls[2].url
    /\ calls[3].source = "network"
    /\ FileCaching
    /\ client.cache[calls[1].url] = calls[1].data[1]
    /\ disk[calls[1].url].payload = calls[1].data[1]

(***************************************************************************)
(* SpecQueue: ThreadingManager.run_workers (src/util/threading.py).  The   *)
(* items are 1..k, all put on the queue before run_workers; raising is the *)
(* set of items for which the callback raises an Exception.  The executor  *)
(* has as many workers as tasks, so every worker runs from the start, and  *)
(* a thread that can take a step takes one in the end.                     *)
(***************************************************************************)
MaxQueue == 3

IdleWorker == [pc |-> "get", item |-> 0, process_count |-> 0]

InitQueue ==
    /\ ProjIdle
    /\ EvoIdle
    /\ SpeciesIdle
    /\ CacheIdle
    /\ RunIdle
    /\ HttpIdle
    /\ ProjectionsIdle
    /\ generation_version_groups = << >>
    /\ target_gen = 0
    /\ \E n \in 1..MaxThreads, k \in 0..MaxQueue :
         \E raising \in SUBSET (1..k) :
            threads = [phase |-> "running",
                       items |-> k,
                       raising |-> raising,
                       queue |-> [i \in 1..k |-> i],
                       workers |-> [i \in 1..n |-> IdleWorker],
                       thread_counts |-> << >>,
                       handled |-> << >>,
                       total |-> None]

\* The worker's next statement after the callback raised or returned
\* without the except clause: the exception ends the worker.
after_callback_uncaught(raised) == IF raised THEN "dead" ELSE "get"

\* threading.py 68-75: the exception is caught and logged, the item is
\* counted and the loop goes on.
after_callback(raised) == "get"

\* threading.py 62-65: queue.get(timeout=0.5) hands out the oldest item, or
\* raises Empty when the queue stays empty.
QueueGet(i) ==
    /\ threads.phase = "running"
    /\ threads.workers[i].pc = "get"
    /\ threads' =
          IF threads.queue # << >>
          THEN [threads EXCEPT !.queue = Tail(@),
                               !.workers[i].pc = "process",
                               !.workers[i].item = Head(threads.queue)]
          ELSE [threads EXCEPT !.workers[i].pc = "exit"]
    /\ UNCHANGED <<generation_version_groups, target_gen, raw, out, chain,
                   evolution_chain, scraped, parser, cacheVars, runVars, http,
                   projections>>

\* threading.py 67-75: the callback runs for the item.
Callback(i) ==
    /\ threads.phase = "running"
    /\ threads.workers[i].pc = "process"
    /\ LET item == threads.workers[i].item
           raised == item \in threads.raising
           next == after_callback(raised)
       IN  threads' =
              [threads EXCEPT
                  !.handled = Append(@, [item |-> item, thread_id |-> i,
                                         raised |-> raised]),
                  !.workers[i].pc = next,
                  !.workers[i].process_count = IF next = "get" THEN @ + 1 ELSE @]
    /\ UNCHANGED <<generation_version_groups, target_gen, raw, out, chain,
                   evolution_chain, scraped, parser, cacheVars, runVars, http,
                   projections>>

\* threading.py 77-79.
WorkerExit(i) ==
    /\ threads.phase = "running"
    /\ threads.workers[i].pc = "exit"
    /\ threads' = [threads EXCEPT
                      !.workers[i].pc = "done",
                      !.thread_counts = Put(@, i, threads.workers[i].process_count)]
    /\ UNCHANGED <<generation_version_groups, target_gen, raw, out, chain,
                   evolution_chain, scraped, parser, cacheVars, runVars, http,
                   projections>>

\* sum(self.thread_counts.values()).
RECURSIVE SumCounts(_, _)
SumCounts(counts, ids) ==
    IF ids = {} THEN 0
    ELSE LET i == CHOOSE x \in ids : TRUE
         IN  counts[i] + SumCounts(counts, ids \ {i})

\* threading.py 89-95: every future is done; future.result() raises what a
\* worker raised.
RunWorkersReturn ==
    /\ threads.phase = "running"
    /\ \A i \in DOMAIN threads.workers : threads.workers[i].pc \in {"done", "dead"}
    /\ threads' =
          IF \E i \in DOMAIN threads.workers : threads.workers[i].pc = "dead"
          THEN [threads EXCEPT !.phase = "raised"]
          ELSE [threads EXCEPT
                   !.phase = "returned",
                   !.total = Some(SumCounts(threads.thread_counts,
                                            DOMAIN threads.thread_counts))]
    /\ UNCHANGED <<generation_version_groups, target_gen, raw, out, chain,
                   evolution_chain, scraped, parser, cacheVars, runVars, http,
                   projections>>

WorkerStep(i) == QueueGet(i) \/ Callback(i) \/ WorkerExit(i)

NextQueue ==
    \/ \E i \in DOMAIN threads.workers : QueueGet(i)
    \/ \E i \in DOMAIN threads.workers : Callback(i)
    \/ \E i \in DOMAIN threads.workers : WorkerExit(i)
    \/ RunWorkersReturn

SpecQueue ==
    /\ InitQueue
    /\ [][NextQueue]_vars
    /\ \A i \in 1..MaxThreads : WF_vars(i \in DOMAIN threads.workers /\ WorkerStep(i))
    /\ WF_vars(RunWorkersReturn)

TimesHandled(item) ==
    Cardinality({j \in DOMAIN threads.handled : threads.handled[j].item = item})

\* C30: no item is handed to the callback twice; run_workers returns in
\* the end, with every worker finished, every item handed to the callback
\* exactly once, items whose callback raised included, and the sum of
\* thread_counts equal to the number of items.
C30_QueueDrained ==
    /\ [](threads # << >> =>
            \A item \in 1..threads.items : TimesHandled(item) <= 1)
    /\ <>[](/\ threads # << >>
            /\ threads.phase = "returned"
            /\ \A i \in DOMAIN threads.workers : threads.workers[i].pc = "done"
            /\ \A item \in 1..threads.items : TimesHandled(item) = 1
            /\ threads.total = Some(threads.items))

C30_Witness ==
    /\ threads.phase = "returned"
    /\ threads.items = MaxQueue
    /\ Len(threads.workers) = 2
    /\ threads.raising = {1}
    /\ threads.handled[1] = [item |-> 1, thread_id |-> 1, raised |-> TRUE]
    /\ threads.thread_counts[1] >= 2
    /\ threads.thread_counts[2] >= 1
    /\ threads.total = Some(MaxQueue)

====
